---- MODULE Spec2Model ----
(***************************************************************************)
(* Model of the Enhanced Memory System of the assistant:                   *)
(*   src/src/memory/knowledge_graph.py   KnowledgeGraph, PersonalityGraph  *)
(*   src/src/memory/enhanced_memory.py   EnhancedMemorySystem              *)
(*   src/src/memory/vector_db/chroma_manager.py  ChromaMemoryManager       *)
(*   src/src/proactive/proactive_assistant.py  ProactiveAssistant          *)
(*   src/src/proactive/calendar_manager.py     CalendarManager             *)
(*                                                                         *)
(* Strings are sequences of letters.  The alphabet holds the letters       *)
(* "a", "b", "A", "B" and, as single letters, the fixed words the code     *)
(* writes ("trait_", "user_profile", "unknown", ...) and the words of the  *)
(* conversation turns (Vietnamese words are written without diacritics);   *)
(* a text is its words, a blank between two of them.                       *)
(* Attribute values are tagged: Str(s) is a Python str, Num(n) any other   *)
(* value.  Fractions are counted in tenths: Num(8) is 0.8.                 *)
(***************************************************************************)
EXTENDS Integers, Sequences, FiniteSets, TLC

VARIABLES
    knowledge_graph,    \* EnhancedMemorySystem.knowledge_graph / a KnowledgeGraph
    personality_graph,  \* EnhancedMemorySystem.personality_graph / a PersonalityGraph
    vector_memory,      \* EnhancedMemorySystem.vector_memory (ChromaMemoryManager)
    settings,           \* EnhancedMemorySystem.settings
    settings_file,      \* memory_settings.json: its content, None while it is not there
    proactive,          \* a ProactiveAssistant with its CalendarManager and threads
    now,                \* datetime.now(): a tick per writing call, or the day
    calls,              \* history: the writing calls made so far, in order
    ret                 \* outcome of the last public call

vars == <<knowledge_graph, personality_graph, vector_memory, settings, settings_file,
         proactive, now, calls, ret>>

\* ---------------------------------------------------------------- bounds
\* number of public calls in a run of the graph specification
MaxGraphCalls == 3
\* number of addTrait calls in a run of the personality specification
MaxTraitCalls == 3
\* number of public calls in a run of the orchestrator specification
MaxMemoryCalls == 1
\* number of entities in the stored graph of the search specification
MaxNodes == 22
\* number of writing calls in a run of the vector store specification
MaxVectorCalls == 2
\* number of days that pass in a run of the vector store specification
MaxDays == 1
\* number of update_personality_trait calls in a run of the profile specification
MaxUpserts == 3
\* number of parallel relations between two entities in the path specification
MaxParallel == 4
\* number of update_settings calls and restarts in a run of the settings specification
MaxSettingsCalls == 2
\* number of calls in a run of the persistence specification
MaxPersistCalls == 2
\* number of writing calls in a run of the memory core specification
MaxCoreCalls == 2
\* number of start_proactive_monitoring and stop_proactive_monitoring calls in a run
MaxMonitorCalls == 3

\* ---------------------------------------------------------------- strings
Str(s) == [str |-> s]
Num(n) == [num |-> n]
IsStr(v) == DOMAIN v = {"str"}

\* Python None
None == [none |-> TRUE]
IsNone(v) == DOMAIN v = {"none"}

\* str.lower() on one letter, then on a string
LowerLetter(c) == CASE c = "A" -> "a" [] c = "B" -> "b" [] c = "Xin" -> "xin"
                    [] c = "Chao" -> "chao" [] c = "AI" -> "ai" [] OTHER -> c
Lower(s) == [i \in 1..Len(s) |-> LowerLetter(s[i])]

\* `sub in s` on Python strings
Contains(s, sub) ==
    \E i \in 0..(Len(s) - Len(sub)) :
        \A j \in 1..Len(sub) : s[i + j] = sub[j]

\* datetime.isoformat() of tick t
DigitLetter(t) == CASE t = 0 -> "0" [] t = 1 -> "1" [] t = 2 -> "2" [] t = 3 -> "3"
                    [] t = 4 -> "4" [] t = 5 -> "5" [] t = 6 -> "6" [] t = 7 -> "7"
                    [] t = 8 -> "8" [] OTHER -> "9"
IsoFormat(t) == <<"T", DigitLetter(t)>>

\* dict.update(): keys of d are kept, keys of u are added or overwritten
DictUpdate(d, u) ==
    [k \in (DOMAIN d) \cup (DOMAIN u) |-> IF k \in DOMAIN u THEN u[k] ELSE d[k]]

EmptyDict == [k \in {} |-> None]

\* json.dumps / json.loads
json_dumps(value) == [json |-> value]
json_loads(text) == text.json

\* pickle.dump / pickle.load
pickle_dump(value) == [pickle |-> value]
pickle_load(data) == data.pickle

\* a file that open(..., 'w') has emptied and whose dump did not complete
Truncated == [truncated |-> TRUE]
IsTruncated(v) == DOMAIN v = {"truncated"}

\* ---------------------------------------------------------------- networkx MultiDiGraph
\* nodes: insertion-ordered list of [id, attrs]; edges: insertion-ordered list of
\* [source, target, key, attrs], key the per-pair edge index.
EmptyMultiDiGraph == [nodes |-> <<>>, edges |-> <<>>]

has_node(graph, n) == \E i \in 1..Len(graph.nodes) : graph.nodes[i].id = n

NodeIndex(graph, n) == CHOOSE i \in 1..Len(graph.nodes) : graph.nodes[i].id = n

NodeAttrs(graph, n) == graph.nodes[NodeIndex(graph, n)].attrs

\* MultiDiGraph.add_node(n, **attrs): a new node is appended, an existing node's
\* attribute dict is updated in place
add_node_dup(graph, n, attrs) ==
    [graph EXCEPT !.nodes = Append(@, [id |-> n, attrs |-> attrs])]

add_node(graph, n, attrs) ==
    IF has_node(graph, n)
    THEN [graph EXCEPT !.nodes[NodeIndex(graph, n)].attrs = DictUpdate(@, attrs)]
    ELSE [graph EXCEPT !.nodes = Append(@, [id |-> n, attrs |-> attrs])]

\* MultiDiGraph.new_edge_key: the number of edges u -> v, raised while taken
EdgeKeys(graph, u, v) ==
    {graph.edges[i].key : i \in {j \in 1..Len(graph.edges) :
        graph.edges[j].source = u /\ graph.edges[j].target = v}}

new_edge_key(graph, u, v) ==
    LET n == Cardinality(EdgeKeys(graph, u, v))
    IN  CHOOSE k \in n..(2 * n) : k \notin EdgeKeys(graph, u, v)
                                  /\ \A m \in n..(k - 1) : m \in EdgeKeys(graph, u, v)

\* MultiDiGraph.add_edge(u, v, **attrs): endpoints that are no nodes yet are
\* added without attributes; every call adds a new parallel edge
add_edge(graph, u, v, attrs) ==
    LET g1 == IF has_node(graph, u) THEN graph ELSE add_node(graph, u, EmptyDict)
        g2 == IF has_node(g1, v) THEN g1 ELSE add_node(g1, v, EmptyDict)
    IN  [g2 EXCEPT !.edges = Append(@, [source |-> u, target |-> v,
                                        key |-> new_edge_key(g2, u, v),
                                        attrs |-> attrs])]

\* ---------------------------------------------------------------- KnowledgeGraph
\* A KnowledgeGraph instance: the in-memory graph and metadata, and the two files
\* (None while the file does not exist).
NewKnowledgeGraph ==
    [graph |-> EmptyMultiDiGraph, metadata |-> EmptyDict,
     graph_file |-> None, metadata_file |-> None]

\* what a failing write leaves in a file: "denied" (open raises) leaves the file as it
\* was, "full" (the dump raises after open emptied the file) leaves it truncated
DiskOk == "ok"
FileAfterWrite(file, content, disk) ==
    CASE disk = "denied" -> file
      [] disk = "full" -> Truncated
      [] OTHER -> content

\* _save_graph: pickle.dump of the whole graph; an error is printed, not raised
SaveGraph(kg, disk) ==
    [kg EXCEPT !.graph_file = FileAfterWrite(@, pickle_dump(kg.graph), disk)]

_save_graph(kg) == SaveGraph(kg, DiskOk)

\* _save_metadata: json.dump of the whole metadata dict; an error is printed, not raised
SaveMetadata(kg, disk) ==
    [kg EXCEPT !.metadata_file = FileAfterWrite(@, json_dumps(kg.metadata), disk)]

_save_metadata(kg) == SaveMetadata(kg, DiskOk)

\* _load_graph: the unpickled file; the graph stays empty when there is no file and
\* becomes empty when pickle.load raises
_load_graph(kg) ==
    IF IsNone(kg.graph_file) THEN kg
    ELSE IF IsTruncated(kg.graph_file) THEN [kg EXCEPT !.graph = EmptyMultiDiGraph]
    ELSE [kg EXCEPT !.graph = pickle_load(kg.graph_file)]

\* _load_metadata: whatever JSON value the file holds, {} when json.load raises
_load_metadata(kg) ==
    IF IsNone(kg.metadata_file) THEN kg
    ELSE IF IsTruncated(kg.metadata_file) THEN [kg EXCEPT !.metadata = EmptyDict]
    ELSE [kg EXCEPT !.metadata = json_loads(kg.metadata_file)]

\* KnowledgeGraph.__init__ on a data directory that holds these two files
KnowledgeGraph_init(graph_file, metadata_file) ==
    _load_metadata(_load_graph(
        [graph |-> EmptyMultiDiGraph, metadata |-> EmptyDict,
         graph_file |-> graph_file, metadata_file |-> metadata_file]))

\* number of example ids the metadata keeps per entity type
MaxExamples == 10

InSeq(x, s) == \E i \in 1..Len(s) : s[i] = x

LastN(s, n) == IF Len(s) > n THEN SubSeq(s, Len(s) - n + 1, Len(s)) ELSE s

\* the metadata update of add_entity (lines 85-95)
UpdateMetadata(metadata, entity_id, entity_type) ==
    LET m1 == IF entity_type \in DOMAIN metadata THEN metadata
              ELSE DictUpdate(metadata, entity_type :> [count |-> 0, examples |-> <<>>])
        old == m1[entity_type]
        ex  == IF InSeq(entity_id, old.examples) THEN old.examples
               ELSE LastN(Append(old.examples, entity_id), MaxExamples)
    IN  [m1 EXCEPT ![entity_type] = [count |-> old.count + 1, examples |-> ex]]

\* the node attributes add_entity builds (lines 74-81): the passed properties are
\* written over type, created_at and updated_at
EntityNodeAttrs(entity_type, properties, t) ==
    DictUpdate([type |-> Str(entity_type), created_at |-> Str(IsoFormat(t)),
                updated_at |-> Str(IsoFormat(t))],
               properties)

\* properties that are no dict (a number): node_attrs.update(properties) raises
NotADict(properties) == DOMAIN properties = {"num"}

\* a metadata value the update of lines 89-95 can work on: {"count": .., "examples": ..}
IsEntry(v) == DOMAIN v = {"count", "examples"}

\* the metadata update raises on an entry of another shape (line 89)
MetadataRaises(metadata, entity_type) ==
    entity_type \in DOMAIN metadata /\ ~IsEntry(metadata[entity_type])

\* add_entity at time t with the disk in state disk: [self: the instance afterwards,
\* value: what the call returns].  An exception leaves the try block where it is
\* raised: before add_node (line 81), or after it (line 89).
AddEntitySteps(kg, entity_id, entity_type, properties, t, disk) ==
    IF NotADict(properties) THEN [self |-> kg, value |-> FALSE]
    ELSE CHOOSE result \in
             {IF MetadataRaises(k1.metadata, entity_type)
              THEN [self |-> k1, value |-> FALSE]
              ELSE [self |-> SaveMetadata(SaveGraph(
                        [k1 EXCEPT !.metadata =
                            UpdateMetadata(@, entity_id, entity_type)],
                        disk), disk),
                    value |-> TRUE] :
                 k1 \in {[kg EXCEPT !.graph =
                             add_node(@, entity_id,
                                      EntityNodeAttrs(entity_type, properties, t))]}} :
             TRUE

\* add_entity that changes nothing in memory when the metadata update raises
AddEntitySteps_rollback(kg, entity_id, entity_type, properties, t, disk) ==
    IF NotADict(properties) \/ MetadataRaises(kg.metadata, entity_type)
    THEN [self |-> kg, value |-> FALSE]
    ELSE AddEntitySteps(kg, entity_id, entity_type, properties, t, disk)

\* add_entity at time t on a working disk; returns the instance afterwards
add_entity(kg, entity_id, entity_type, properties, t) ==
    AddEntitySteps(kg, entity_id, entity_type, properties, t, DiskOk).self

\* the edge attributes add_relationship builds (lines 116-123)
EdgeAttrs(relation_type, properties, t) ==
    DictUpdate([type |-> Str(relation_type), created_at |-> Str(IsoFormat(t)),
                weight |-> Num(10)],
               properties)

\* add_relationship without the endpoint check of lines 110-113
add_relationship_bare(kg, source, target, relation_type, properties, t) ==
    _save_graph([kg EXCEPT !.graph =
        add_edge(kg.graph, source, target, EdgeAttrs(relation_type, properties, t))])

\* add_relationship that re-adds both endpoints whether they exist or not
add_relationship_readd(kg, source, target, relation_type, properties, t) ==
    LET k1 == add_entity(kg, source, <<"unknown">>, EmptyDict, t)
        k2 == add_entity(k1, target, <<"unknown">>, EmptyDict, t)
    IN  _save_graph([k2 EXCEPT !.graph =
            add_edge(k2.graph, source, target, EdgeAttrs(relation_type, properties, t))])

\* add_relationship at time t; returns the instance afterwards (the call returns True)
add_relationship(kg, source, target, relation_type, properties, t) ==
    LET k1 == IF has_node(kg.graph, source) THEN kg
              ELSE add_entity(kg, source, <<"unknown">>, EmptyDict, t)
        k2 == IF has_node(k1.graph, target) THEN k1
              ELSE add_entity(k1, target, <<"unknown">>, EmptyDict, t)
    IN  _save_graph([k2 EXCEPT !.graph =
            add_edge(k2.graph, source, target, EdgeAttrs(relation_type, properties, t))])

\* add_relationship at time t with the disk in state disk: [self, value]; the
\* results of the two add_entity calls are not looked at
AddRelationshipSteps(kg, source, target, relation_type, properties, t, disk) ==
    LET k1 == IF has_node(kg.graph, source) THEN kg
              ELSE AddEntitySteps(kg, source, <<"unknown">>, EmptyDict, t, disk).self
        k2 == IF has_node(k1.graph, target) THEN k1
              ELSE AddEntitySteps(k1, target, <<"unknown">>, EmptyDict, t, disk).self
    IN  IF NotADict(properties) THEN [self |-> k2, value |-> FALSE]
        ELSE [self |-> SaveGraph([k2 EXCEPT !.graph =
                          add_edge(k2.graph, source, target,
                                   EdgeAttrs(relation_type, properties, t))], disk),
              value |-> TRUE]

\* get_entity: a copy of the node's attribute dict, or None
get_entity(kg, entity_id) ==
    IF has_node(kg.graph, entity_id) THEN NodeAttrs(kg.graph, entity_id) ELSE None

\* indices of the edges source -> target, in insertion (key) order
EdgesBetween(graph, u, v) ==
    SelectSeq([i \in 1..Len(graph.edges) |-> i],
              LAMBDA i : graph.edges[i].source = u /\ graph.edges[i].target = v)

\* graph.successors(n) / graph.predecessors(n): the distinct neighbours of n in the
\* order their first edge was added
RECURSIVE Dedup(_)
Dedup(s) ==
    IF s = <<>> THEN <<>>
    ELSE LET front == Dedup(SubSeq(s, 1, Len(s) - 1))
             last == s[Len(s)]
         IN  IF InSeq(last, front) THEN front ELSE Append(front, last)

successors(graph, n) ==
    LET out == SelectSeq(graph.edges, LAMBDA e : e.source = n)
    IN  Dedup([i \in 1..Len(out) |-> out[i].target])

predecessors(graph, n) ==
    LET inc == SelectSeq(graph.edges, LAMBDA e : e.target = n)
    IN  Dedup([i \in 1..Len(inc) |-> inc[i].source])

RECURSIVE Flatten(_)
Flatten(ss) == IF ss = <<>> THEN <<>> ELSE Head(ss) \o Flatten(Tail(ss))

\* dict.get(key, default)
DictGet(d, key, default) == IF key \in DOMAIN d THEN d[key] ELSE default

Relationship(graph, direction, i) ==
    [direction |-> direction,
     source |-> graph.edges[i].source,
     target |-> graph.edges[i].target,
     type |-> DictGet(graph.edges[i].attrs, "type", Str(<<"unknown">>)),
     properties |-> graph.edges[i].attrs]

\* get_relationships: the outgoing relations (by successor, then by edge key),
\* then the incoming ones; graph.successors raises for an id that is no node
get_relationships(kg, entity_id) ==
    IF ~has_node(kg.graph, entity_id) THEN [raised |-> "NetworkXError"] ELSE
    LET g == kg.graph
        succ == successors(g, entity_id)
        pred == predecessors(g, entity_id)
        outIdx == Flatten([k \in 1..Len(succ) |-> EdgesBetween(g, entity_id, succ[k])])
        inIdx == Flatten([k \in 1..Len(pred) |-> EdgesBetween(g, pred[k], entity_id)])
    IN  [k \in 1..Len(outIdx) |-> Relationship(g, "outgoing", outIdx[k])]
        \o [k \in 1..Len(inIdx) |-> Relationship(g, "incoming", inIdx[k])]

\* number of paths find_path returns at most
MaxPaths == 10

\* G.edges(u) of a MultiDiGraph: the targets of the edges out of u, neighbour by
\* neighbour in the order of successors(u), once for every parallel edge
OutTargets(graph, u) ==
    LET nbrs == successors(graph, u)
    IN  Flatten([i \in 1..Len(nbrs) |->
                    [k \in 1..Len(EdgesBetween(graph, u, nbrs[i])) |-> nbrs[i]]])

\* nx.all_simple_paths on a multigraph, depth first from the path visited: a
\* child on the path is skipped, the target is yielded and not passed, any other
\* child is entered while the path has fewer than cutoff nodes.  A path is
\* yielded once for every parallel edge along it.
RECURSIVE all_simple_paths(_, _, _, _)
all_simple_paths(graph, visited, target, cutoff) ==
    LET children == OutTargets(graph, visited[Len(visited)])
    IN  Flatten([i \in 1..Len(children) |->
            IF InSeq(children[i], visited) THEN <<>>
            ELSE IF children[i] = target THEN <<Append(visited, target)>>
            ELSE IF Len(visited) < cutoff
            THEN all_simple_paths(graph, Append(visited, children[i]), target, cutoff)
            ELSE <<>>])

\* find_path(source, target, max_length): an id that is no node makes networkx
\* raise, which the method catches.  trivial: the installed networkx yields the
\* path [source] when source is the target (older ones yield nothing).
find_path(kg, source, target, max_length, trivial) ==
    IF ~has_node(kg.graph, source) \/ ~has_node(kg.graph, target) THEN <<>>
    ELSE IF source = target THEN (IF trivial THEN <<<<source>>>> ELSE <<>>)
    ELSE IF max_length < 1 THEN <<>>
    ELSE LET paths == all_simple_paths(kg.graph, <<source>>, target, max_length)
         IN  SubSeq(paths, 1, IF Len(paths) < MaxPaths THEN Len(paths) ELSE MaxPaths)

\* number of results search_entities returns at most
MaxSearchResults == 20

\* the score of one node (lines 222-229): 2 for the id, 1 per matching str attribute
match_score_unmatched(node, query) ==
    (IF Contains(Lower(node.id), Lower(query)) THEN 2 ELSE 0)
    + Cardinality({k \in DOMAIN node.attrs : IsStr(node.attrs[k])})

match_score(node, query) ==
    LET query_lower == Lower(query)
    IN  (IF Contains(Lower(node.id), query_lower) THEN 2 ELSE 0)
        + Cardinality({k \in DOMAIN node.attrs :
                         IsStr(node.attrs[k])
                         /\ Contains(Lower(node.attrs[k].str), query_lower)})

\* list.sort(key=score, reverse=True): stable, highest score first
RECURSIVE SortByScoreDesc(_, _)
SortByScoreDesc(results, hi) ==
    IF hi < 0 THEN <<>>
    ELSE SelectSeq(results, LAMBDA r : r.score = hi) \o SortByScoreDesc(results, hi - 1)

MaxScore(results) ==
    IF results = <<>> THEN 0
    ELSE CHOOSE m \in {results[i].score : i \in 1..Len(results)} :
            \A i \in 1..Len(results) : results[i].score <= m

\* search_entities that cuts the results to 20 before it sorts them
search_entities_cut_first(kg, query, entity_type) ==
    LET nodes == kg.graph.nodes
        all == [i \in 1..Len(nodes) |->
                   [entity_id |-> nodes[i].id,
                    type |-> DictGet(nodes[i].attrs, "type", Str(<<"unknown">>)),
                    score |-> match_score(nodes[i], query),
                    properties |-> nodes[i].attrs,
                    skipped |-> ~IsNone(entity_type) /\ entity_type # Str(<<>>)
                                /\ DictGet(nodes[i].attrs, "type", None) # entity_type]]
        kept == SelectSeq(all, LAMBDA r : ~r.skipped /\ r.score > 0)
        results == [i \in 1..Len(kept) |->
                       [entity_id |-> kept[i].entity_id, type |-> kept[i].type,
                        score |-> kept[i].score, properties |-> kept[i].properties]]
        cut == SubSeq(results, 1, IF Len(results) < MaxSearchResults THEN Len(results)
                                  ELSE MaxSearchResults)
    IN  SortByScoreDesc(cut, MaxScore(cut))

\* search_entities(query, entity_type); entity_type None or "" does not filter
search_entities(kg, query, entity_type) ==
    LET nodes == kg.graph.nodes
        all == [i \in 1..Len(nodes) |->
                   [entity_id |-> nodes[i].id,
                    type |-> DictGet(nodes[i].attrs, "type", Str(<<"unknown">>)),
                    score |-> match_score(nodes[i], query),
                    properties |-> nodes[i].attrs,
                    skipped |-> ~IsNone(entity_type) /\ entity_type # Str(<<>>)
                                /\ DictGet(nodes[i].attrs, "type", None) # entity_type]]
        kept == SelectSeq(all, LAMBDA r : ~r.skipped /\ r.score > 0)
        results == [i \in 1..Len(kept) |->
                       [entity_id |-> kept[i].entity_id, type |-> kept[i].type,
                        score |-> kept[i].score, properties |-> kept[i].properties]]
        sorted == SortByScoreDesc(results, MaxScore(results))
    IN  SubSeq(sorted, 1, IF Len(sorted) < MaxSearchResults THEN Len(sorted)
                          ELSE MaxSearchResults)

\* the nodes a relation joins to u, in either direction (MultiDiGraph.to_undirected)
Neighbours(graph, u) ==
    {graph.edges[i].target : i \in {j \in 1..Len(graph.edges) : graph.edges[j].source = u}}
    \cup
    {graph.edges[i].source : i \in {j \in 1..Len(graph.edges) : graph.edges[j].target = u}}

\* the nodes reachable from the set seen in the undirected graph
RECURSIVE Reach(_, _)
Reach(graph, seen) ==
    LET next == seen \cup UNION {Neighbours(graph, u) : u \in seen}
    IN  IF next = seen THEN seen ELSE Reach(graph, next)

\* nx.connected_components: the component of every node not yet seen, in node order
RECURSIVE ComponentsFrom(_, _, _)
ComponentsFrom(graph, i, seen) ==
    IF i > Len(graph.nodes) THEN <<>>
    ELSE IF graph.nodes[i].id \in seen THEN ComponentsFrom(graph, i + 1, seen)
    ELSE LET component == Reach(graph, {graph.nodes[i].id})
         IN  <<component>> \o ComponentsFrom(graph, i + 1, seen \cup component)

connected_components(graph) == ComponentsFrom(graph, 1, {})

\* get_clusters: the components of more than one node, named by their position
\* among all components
get_clusters(kg) ==
    LET components == connected_components(kg.graph)
    IN  SelectSeq([i \in 1..Len(components) |->
                      [name |-> <<"cluster_", ToString(i - 1)>>,
                       members |-> components[i]]],
                  LAMBDA cluster : Cardinality(cluster.members) > 1)

\* ---------------------------------------------------------------- PersonalityGraph
TraitId(trait_name) == <<"trait_">> \o trait_name

\* add_personality_trait that links user_profile to a trait only when the trait is new
add_personality_trait_once(pg, trait_name, value, confidence, context, t) ==
    LET trait_id == TraitId(trait_name)
        user_id == <<"user_profile">>
        known == has_node(pg.graph, trait_id)
        k1 == add_entity(pg, trait_id, <<"personality_trait">>,
                         [trait_name |-> Str(trait_name), value |-> Str(value),
                          confidence |-> Num(confidence), context |-> Str(context)], t)
        k2 == add_entity(k1, user_id, <<"user">>, EmptyDict, t)
    IN  IF known THEN k2
        ELSE add_relationship(k2, user_id, trait_id, <<"has_trait">>,
                              [confidence |-> Num(confidence),
                               discovered_at |-> Str(IsoFormat(t))], t)

\* add_personality_trait that keeps the first value of a trait it already holds
add_personality_trait_keep(pg, trait_name, value, confidence, context, t) ==
    LET trait_id == TraitId(trait_name)
        user_id == <<"user_profile">>
        k1 == IF has_node(pg.graph, trait_id) THEN pg
              ELSE add_entity(pg, trait_id, <<"personality_trait">>,
                         [trait_name |-> Str(trait_name), value |-> Str(value),
                          confidence |-> Num(confidence), context |-> Str(context)], t)
        k2 == add_entity(k1, user_id, <<"user">>, EmptyDict, t)
    IN  add_relationship(k2, user_id, trait_id, <<"has_trait">>,
                         [confidence |-> Num(confidence),
                          discovered_at |-> Str(IsoFormat(t))], t)

\* add_personality_trait at time t; returns the instance afterwards
add_personality_trait(pg, trait_name, value, confidence, context, t) ==
    LET trait_id == TraitId(trait_name)
        user_id == <<"user_profile">>
        k1 == add_entity(pg, trait_id, <<"personality_trait">>,
                         [trait_name |-> Str(trait_name), value |-> Str(value),
                          confidence |-> Num(confidence), context |-> Str(context)], t)
        k2 == add_entity(k1, user_id, <<"user">>, EmptyDict, t)
    IN  add_relationship(k2, user_id, trait_id, <<"has_trait">>,
                         [confidence |-> Num(confidence),
                          discovered_at |-> Str(IsoFormat(t))], t)

\* truth value of a Python object: None, "" and 0 are false
Truthy(v) == ~IsNone(v) /\ v # Str(<<>>) /\ v # Num(0)

\* get_personality_summary: the trait nodes with a truthy trait_name, keyed by it;
\* a later node writes over an earlier one of the same trait_name
get_personality_summary(pg) ==
    LET nodes == pg.graph.nodes
        IsTrait(i) == DictGet(nodes[i].attrs, "type", None) = Str(<<"personality_trait">>)
                      /\ Truthy(DictGet(nodes[i].attrs, "trait_name", None))
        idx == {i \in 1..Len(nodes) : IsTrait(i)}
        names == {nodes[i].attrs["trait_name"] : i \in idx}
        LastOf(tn) == CHOOSE i \in idx : nodes[i].attrs["trait_name"] = tn
                         /\ \A j \in idx : nodes[j].attrs["trait_name"] = tn => j <= i
    IN  [tn \in names |->
            [value |-> DictGet(nodes[LastOf(tn)].attrs, "value", None),
             confidence |-> DictGet(nodes[LastOf(tn)].attrs, "confidence", Num(10)),
             context |-> DictGet(nodes[LastOf(tn)].attrs, "context", Str(<<>>))]]

\* update_entity_from_conversation keeps this many recent contexts
MaxRecentContext == 5

\* a Python list as an attribute value
List(items) == [list |-> items]

\* update_entity_from_conversation that leaves the changed graph in memory only
UpdateEntitySteps_unsaved(kg, entity_id, conversation, t, disk) ==
    IF ~has_node(kg.graph, entity_id) THEN kg
    ELSE LET attrs == NodeAttrs(kg.graph, entity_id)
         IN  [kg EXCEPT !.graph.nodes[NodeIndex(kg.graph, entity_id)].attrs =
                 DictUpdate(attrs,
                     [last_mentioned |-> Str(IsoFormat(t)),
                      mention_count |->
                          Num(DictGet(attrs, "mention_count", Num(0)).num + 1)])]

\* update_entity_from_conversation that keeps the oldest contexts instead of the newest
UpdateEntitySteps_keep_first(kg, entity_id, conversation, t, disk) ==
    IF ~has_node(kg.graph, entity_id) THEN kg
    ELSE LET attrs == NodeAttrs(kg.graph, entity_id)
             current_context == Append(DictGet(attrs, "recent_context", List(<<>>)).list,
                                       [conversation |-> conversation,
                                        timestamp |-> IsoFormat(t)])
             updated == DictUpdate(attrs,
                 [last_mentioned |-> Str(IsoFormat(t)),
                  mention_count |-> Num(DictGet(attrs, "mention_count", Num(0)).num + 1),
                  recent_context |->
                      List(SubSeq(current_context, 1,
                                  IF Len(current_context) > MaxRecentContext
                                  THEN MaxRecentContext ELSE Len(current_context)))])
         IN  SaveGraph([kg EXCEPT
                 !.graph.nodes[NodeIndex(kg.graph, entity_id)].attrs = updated], disk)

\* update_entity_from_conversation at time t with the disk in state disk;
\* conversation is already cut to 200 characters by the method
UpdateEntitySteps(kg, entity_id, conversation, t, disk) ==
    IF ~has_node(kg.graph, entity_id) THEN kg
    ELSE LET attrs == NodeAttrs(kg.graph, entity_id)
             current_context == Append(DictGet(attrs, "recent_context", List(<<>>)).list,
                                       [conversation |-> conversation,
                                        timestamp |-> IsoFormat(t)])
             updated == DictUpdate(attrs,
                 [last_mentioned |-> Str(IsoFormat(t)),
                  mention_count |-> Num(DictGet(attrs, "mention_count", Num(0)).num + 1),
                  recent_context |-> List(LastN(current_context, MaxRecentContext))])
         IN  SaveGraph([kg EXCEPT
                 !.graph.nodes[NodeIndex(kg.graph, entity_id)].attrs = updated], disk)

\* update_entity_from_conversation on a working disk
update_entity_from_conversation(kg, entity_id, conversation, t) ==
    UpdateEntitySteps(kg, entity_id, conversation, t, DiskOk)

\* KnowledgeGraph.get_stats: the counts and the metadata (the figures derived from
\* the degrees are left out)
graph_get_stats(kg) ==
    [nodes |-> Len(kg.graph.nodes), edges |-> Len(kg.graph.edges),
     entity_types |-> kg.metadata]

\* ---------------------------------------------------------------- ChromaMemoryManager
\* A ChromaMemoryManager: its three collections, each an insertion-ordered list of
\* [id, document, metadata], and the number of uuids drawn so far.
NewChromaMemoryManager ==
    [conversations |-> <<>>, knowledge |-> <<>>, personality |-> <<>>, uuids |-> 0]

\* str(uuid.uuid4()): an id never drawn before
uuid4(vm) == <<"uuid", DigitLetter(vm.uuids)>>

\* add_conversation at time t without a failure of the collection:
\* [self: the manager afterwards, value: the id returned]
add_conversation(vm, user_input, ai_response, context, t) ==
    LET conversation_id == uuid4(vm)
        full_text == <<"User:">> \o user_input \o <<"\nAI:">> \o ai_response
        metadata == [timestamp |-> Str(IsoFormat(t)),
                     user_input |-> Str(user_input),
                     ai_response |-> Str(ai_response),
                     type |-> Str(<<"conversation">>),
                     context |-> json_dumps(IF IsNone(context) THEN EmptyDict
                                            ELSE context)]
    IN  [self |-> [vm EXCEPT !.uuids = @ + 1,
                             !.conversations = Append(@, [id |-> conversation_id,
                                                          document |-> full_text,
                                                          metadata |-> metadata])],
         value |-> conversation_id]

\* add_knowledge at time t without a failure of the collection
add_knowledge(vm, topic, content, source, tags, t) ==
    LET knowledge_id == uuid4(vm)
        metadata == [topic |-> Str(topic), source |-> Str(source),
                     timestamp |-> Str(IsoFormat(t)),
                     tags |-> json_dumps(tags),
                     type |-> Str(<<"knowledge">>)]
    IN  [self |-> [vm EXCEPT !.uuids = @ + 1,
                             !.knowledge = Append(@, [id |-> knowledge_id,
                                                      document |-> content,
                                                      metadata |-> metadata])],
         value |-> knowledge_id]

\* The sentence encoder and the cosine index are collaborators.  They are modelled
\* by one deterministic distance (tenths, within the cosine range 0..20) that grows
\* as the two texts share fewer words.
WordsOf(text) == {LowerLetter(text[i]) : i \in 1..Len(text)}

Distance(query, document) ==
    LET shared == Cardinality(WordsOf(query) \cap WordsOf(document))
    IN  IF Lower(query) = Lower(document) THEN 0
        ELSE IF shared >= 2 THEN 2
        ELSE IF shared = 1 THEN 6
        ELSE 11

\* the largest distance of the cosine index, in tenths
MaxDistance == 20

\* collection.query(query_texts=[query], n_results=n): the n nearest records,
\* nearest first
RECURSIVE SortByDistanceAsc(_, _, _)
SortByDistanceAsc(records, query, d) ==
    IF d > MaxDistance THEN <<>>
    ELSE SelectSeq(records, LAMBDA r : Distance(query, r.document) = d)
         \o SortByDistanceAsc(records, query, d + 1)

collection_query(records, query, n_results) ==
    LET sorted == SortByDistanceAsc(records, query, 0)
    IN  SubSeq(sorted, 1, IF Len(sorted) < n_results THEN Len(sorted) ELSE n_results)

\* search_conversations; failed: the query raises, which the method catches
search_conversations(vm, query, n_results, failed) ==
    IF failed THEN <<>>
    ELSE LET hits == collection_query(vm.conversations, query, n_results)
         IN  [i \in 1..Len(hits) |->
                 [document |-> hits[i].document,
                  user_input |-> DictGet(hits[i].metadata, "user_input", Str(<<>>)),
                  ai_response |-> DictGet(hits[i].metadata, "ai_response", Str(<<>>)),
                  timestamp |-> DictGet(hits[i].metadata, "timestamp", Str(<<>>)),
                  similarity |-> 10 - Distance(query, hits[i].document),
                  context |-> json_loads(DictGet(hits[i].metadata, "context",
                                                 json_dumps(EmptyDict)))]]

\* search_knowledge; failed: the query raises, which the method catches
search_knowledge(vm, query, n_results, failed) ==
    IF failed THEN <<>>
    ELSE LET hits == collection_query(vm.knowledge, query, n_results)
         IN  [i \in 1..Len(hits) |->
                 [content |-> hits[i].document,
                  topic |-> DictGet(hits[i].metadata, "topic", Str(<<>>)),
                  source |-> DictGet(hits[i].metadata, "source", Str(<<>>)),
                  timestamp |-> DictGet(hits[i].metadata, "timestamp", Str(<<>>)),
                  tags |-> json_loads(DictGet(hits[i].metadata, "tags",
                                              json_dumps(<<>>))),
                  similarity |-> 10 - Distance(query, hits[i].document)]]

\* update_personality_trait that adds the record without deleting the old one
update_personality_trait_append(vm, trait, value, confidence, t) ==
    LET trait_id == <<"trait_">> \o trait
        metadata == [trait |-> Str(trait), confidence |-> Num(confidence),
                     timestamp |-> Str(IsoFormat(t)),
                     type |-> Str(<<"personality">>)]
    IN  [self |-> [vm EXCEPT !.personality =
                       Append(@, [id |-> trait_id, document |-> value,
                                  metadata |-> metadata])],
         deleted |-> vm,
         value |-> trait_id]

\* update_personality_trait at time t without a failure of the collection:
\* [self, deleted: the manager between the delete and the add, value: the id]
update_personality_trait(vm, trait, value, confidence, t) ==
    LET trait_id == <<"trait_">> \o trait
        kept == SelectSeq(vm.personality, LAMBDA r : r.id # trait_id)
        metadata == [trait |-> Str(trait), confidence |-> Num(confidence),
                     timestamp |-> Str(IsoFormat(t)),
                     type |-> Str(<<"personality">>)]
    IN  [self |-> [vm EXCEPT !.personality =
                       Append(kept, [id |-> trait_id, document |-> value,
                                     metadata |-> metadata])],
         deleted |-> [vm EXCEPT !.personality = kept],
         value |-> trait_id]

\* get_personality_profile: keyed by the trait of the metadata; a later record
\* writes over an earlier one of the same trait
get_personality_profile(vm) ==
    LET records == vm.personality
        traits == {records[i].metadata["trait"] : i \in 1..Len(records)}
        LastOf(trait) == CHOOSE i \in 1..Len(records) :
                             /\ records[i].metadata["trait"] = trait
                             /\ \A j \in 1..Len(records) :
                                    records[j].metadata["trait"] = trait => j <= i
    IN  [trait \in traits |->
            [value |-> records[LastOf(trait)].document,
             confidence |-> DictGet(records[LastOf(trait)].metadata, "confidence",
                                    Num(10)),
             timestamp |-> DictGet(records[LastOf(trait)].metadata, "timestamp", None)]]

\* ChromaMemoryManager.get_stats
vector_get_stats(vm) ==
    [conversations |-> Len(vm.conversations),
     knowledge_items |-> Len(vm.knowledge),
     personality_traits |-> Len(vm.personality),
     total_entries |-> Len(vm.conversations) + Len(vm.knowledge) + Len(vm.personality)]

\* datetime.fromisoformat(s): the tick whose isoformat is s; None when there is none
\* (the ValueError that cleanup_old_data skips)
FromIsoFormat(s) ==
    IF \E t \in 0..9 : IsoFormat(t) = s
    THEN Num(CHOOSE t \in 0..9 : IsoFormat(t) = s)
    ELSE None

\* cleanup_old_data that also deletes the conversations of the cutoff day
cleanup_old_data_inclusive(vm, days, t) ==
    LET cutoff_date == t - days
        Old(r) == LET ts == IF IsStr(DictGet(r.metadata, "timestamp", Str(<<>>)))
                            THEN FromIsoFormat(DictGet(r.metadata, "timestamp",
                                                       Str(<<>>)).str)
                            ELSE None
                  IN  ~IsNone(ts) /\ ts.num <= cutoff_date
    IN  [vm EXCEPT !.conversations = SelectSeq(@, LAMBDA r : ~Old(r))]

\* cleanup_old_data(days) at time t, one tick a day: the conversations whose
\* timestamp lies before the cutoff are deleted
cleanup_old_data(vm, days, t) ==
    LET cutoff_date == t - days
        Old(r) == LET ts == IF IsStr(DictGet(r.metadata, "timestamp", Str(<<>>)))
                            THEN FromIsoFormat(DictGet(r.metadata, "timestamp",
                                                       Str(<<>>)).str)
                            ELSE None
                  IN  ~IsNone(ts) /\ ts.num < cutoff_date
    IN  [vm EXCEPT !.conversations = SelectSeq(@, LAMBDA r : ~Old(r))]

\* ---------------------------------------------------------------- text
\* len(word), word.istitle() and the date pattern of _simple_entity_extraction, for
\* the words of the conversation turns
WordLen(w) ==
    CASE w \in {"."} -> 1
      [] w \in {"AI", "la"} -> 2
      [] w \in {"Xin", "gi?", "tri", "tue", "tao"} -> 3
      [] w \in {"chao", "Chao", "ban!", "nhan"} -> 4
      [] w \in {"12/05/2024"} -> 10
      [] OTHER -> 5

IsTitle(w) == w \in {"Xin", "Chao"}

IsDate(w) == w \in {"12/05/2024"}

\* date.replace('/', '_').replace('-', '_')
DateId(w) == CASE w = "12/05/2024" -> "12_05_2024" [] OTHER -> w

\* len(text) of the words joined by blanks
RECURSIVE CharLen(_)
CharLen(text) ==
    IF text = <<>> THEN 0
    ELSE WordLen(Head(text)) + (IF Len(text) > 1 THEN 1 ELSE 0) + CharLen(Tail(text))

\* text[:n], cut at the last word that fits
RECURSIVE Truncate(_, _)
Truncate(text, n) ==
    IF CharLen(text) <= n THEN text ELSE Truncate(SubSeq(text, 1, Len(text) - 1), n)

\* text.split('.') with each part stripped: the runs of words between "." words
RECURSIVE SplitSentences(_, _)
SplitSentences(text, current) ==
    IF text = <<>> THEN <<current>>
    ELSE IF Head(text) = "." THEN <<current>> \o SplitSentences(Tail(text), <<>>)
    ELSE SplitSentences(Tail(text), Append(current, Head(text)))

Min(a, b) == IF a < b THEN a ELSE b
Max(a, b) == IF a > b THEN a ELSE b

\* _simple_entity_extraction: the capitalised words longer than 2, then the dates
_simple_entity_extraction(text) ==
    LET idx == SelectSeq([i \in 1..Len(text) |-> i],
                         LAMBDA i : IsTitle(text[i]) /\ WordLen(text[i]) > 2)
        dates == SelectSeq(text, IsDate)
    IN  [k \in 1..Len(idx) |->
            [id |-> <<"entity_", LowerLetter(text[idx[k]])>>,
             name |-> <<text[idx[k]]>>,
             type |-> <<"person_or_place">>,
             context |-> SubSeq(text, Max(1, idx[k] - 2), Min(Len(text), idx[k] + 2)),
             confidence |-> 6]]
        \o
        [k \in 1..Len(dates) |->
            [id |-> <<"date_", DateId(dates[k])>>,
             name |-> <<dates[k]>>,
             type |-> <<"date">>,
             context |-> text,
             confidence |-> 9]]

\* the keyword lists of _update_personality_insights and _extract_knowledge, lowered
TechKeywords == {"code", "programming", "ai", "computer", "software"}
WorkKeywords == {"meeting", "work", "deadline", "project"}
Indicators == {"la", "duoc", "thuong", "luon"}

HasKeyword(text, keywords) == \E i \in 1..Len(text) : LowerLetter(text[i]) \in keywords

\* the word counts _update_personality_insights compares len(user_input.split()) with
DetailedWords == 20
ConciseWords == 5

\* the traits _update_personality_insights adds for user_input, in order
TraitObservationsOf(user_input) ==
    LET n == Len(user_input)
    IN  (IF n > DetailedWords
         THEN <<[trait_name |-> <<"communication_style">>, value |-> <<"detailed">>,
                 confidence |-> 7,
                 context |-> <<"Uses", "long", "messages:", DigitLetter(n), "words">>]>>
         ELSE IF n < ConciseWords
         THEN <<[trait_name |-> <<"communication_style">>, value |-> <<"concise">>,
                 confidence |-> 7,
                 context |-> <<"Uses", "short", "messages:", DigitLetter(n), "words">>]>>
         ELSE <<>>)
        \o
        (IF HasKeyword(user_input, TechKeywords)
         THEN <<[trait_name |-> <<"interests">>, value |-> <<"technology">>,
                 confidence |-> 8,
                 context |-> <<"Mentioned", "tech", "topics:">> \o Truncate(user_input, 100)]>>
         ELSE <<>>)
        \o
        (IF HasKeyword(user_input, WorkKeywords)
         THEN <<[trait_name |-> <<"work_focus">>, value |-> <<"professional">>,
                 confidence |-> 7,
                 context |-> <<"Work-related", "discussion:">>
                             \o Truncate(user_input, 100)]>>
         ELSE <<>>)

\* the sentence lengths _extract_knowledge keeps: more than 20, less than 200
MinSentenceLen == 20
MaxSentenceLen == 200

\* the sentences of ai_response that _extract_knowledge stores
KnowledgeSentences(ai_response) ==
    IF HasKeyword(ai_response, Indicators)
    THEN SelectSeq(SplitSentences(ai_response, <<>>),
                   LAMBDA sentence : CharLen(sentence) > MinSentenceLen
                                     /\ CharLen(sentence) < MaxSentenceLen)
    ELSE <<>>

\* _extract_tags: the categories one of whose keywords is in the lowered text
\* (the keyword "AI" is compared as written)
TagCategories ==
    <<[tag |-> "tech", keywords |-> {"technology", "computer", "software", "AI",
                                     "programming"}],
      [tag |-> "work", keywords |-> {"work", "job", "career", "business", "meeting"}],
      [tag |-> "personal", keywords |-> {"family", "friend", "hobby", "personal"}],
      [tag |-> "health", keywords |-> {"health", "exercise", "diet", "medical"}],
      [tag |-> "education", keywords |-> {"learn", "study", "school", "course",
                                          "education"}]>>

_extract_tags(text) ==
    LET hit == SelectSeq(TagCategories,
                         LAMBDA c : \E i \in 1..Len(text) : LowerLetter(text[i]) \in c.keywords)
    IN  [i \in 1..Len(hit) |-> hit[i].tag]

\* ---------------------------------------------------------------- EnhancedMemorySystem
\* The orchestrator is the record mem of its four fields; a subsystem whose
\* constructor failed is None.  A helper that can raise returns
\* [self: the subsystem afterwards, raised: whether it raised].  fail is the number
\* of items the helper handles before something in it raises; NoFail: nothing does.
NoFail == -1

Handled(items, fail) == IF fail = NoFail THEN Len(items) ELSE Min(fail, Len(items))

default_settings ==
    [vector_similarity_threshold |-> 7,
     max_context_conversations |-> 5,
     auto_extract_entities |-> TRUE,
     personality_learning_enabled |-> TRUE,
     knowledge_extraction_enabled |-> TRUE,
     semantic_clustering_enabled |-> TRUE]

\* _load_settings: the defaults, written over by the settings file when it exists
_load_settings(file) ==
    IF IsNone(file) THEN default_settings ELSE DictUpdate(default_settings, file)

\* _save_settings: json.dump of the whole settings dict; write_fails: the file
\* cannot be opened, which the method catches, and the file stays as it was
_save_settings(settings_dict, file, write_fails) ==
    IF write_fails THEN file ELSE settings_dict

\* update_settings that saves the new settings alone
update_settings_save_partial(settings_dict, file, new_settings, write_fails) ==
    [settings |-> DictUpdate(settings_dict, new_settings),
     settings_file |-> _save_settings(new_settings, file, write_fails)]

\* update_settings(new_settings): [settings, settings_file] afterwards
update_settings(settings_dict, file, new_settings, write_fails) ==
    [settings |-> DictUpdate(settings_dict, new_settings),
     settings_file |-> _save_settings(DictUpdate(settings_dict, new_settings), file,
                                      write_fails)]

\* f"local_{datetime.now().timestamp()}"
LocalId(t) == <<"local_", DigitLetter(t)>>

\* the loop of _extract_and_store_entities over the first n entities
RECURSIVE StoreEntities(_, _, _, _, _, _)
StoreEntities(kg, entities, n, conversation_id, full_text, t) ==
    IF n = 0 THEN kg
    ELSE LET before == StoreEntities(kg, entities, n - 1, conversation_id, full_text, t)
             entity == entities[n]
             added == add_entity(before, entity.id, entity.type,
                                 [name |-> Str(entity.name),
                                  mentioned_in |-> Str(conversation_id),
                                  context |-> Str(entity.context),
                                  confidence |-> Num(entity.confidence)], t)
         IN  update_entity_from_conversation(added, entity.id,
                                             Truncate(full_text, 200), t)

_extract_and_store_entities(kg, user_input, ai_response, conversation_id, t, fail) ==
    LET full_text == user_input \o ai_response
        entities == _simple_entity_extraction(full_text)
    IN  [self |-> StoreEntities(kg, entities, Handled(entities, fail),
                                conversation_id, full_text, t),
         raised |-> fail # NoFail]

\* the add_personality_trait calls of _update_personality_insights, the first n
RECURSIVE StoreTraits(_, _, _, _)
StoreTraits(pg, observations, n, t) ==
    IF n = 0 THEN pg
    ELSE LET o == observations[n]
         IN  add_personality_trait(StoreTraits(pg, observations, n - 1, t),
                                   o.trait_name, o.value, o.confidence, o.context, t)

_update_personality_insights(pg, user_input, ai_response, t, fail) ==
    LET observations == TraitObservationsOf(user_input)
    IN  [self |-> StoreTraits(pg, observations, Handled(observations, fail), t),
         raised |-> fail # NoFail]

\* the add_knowledge calls of _extract_knowledge, the first n
RECURSIVE StoreKnowledge(_, _, _, _, _)
StoreKnowledge(vm, sentences, n, user_input, t) ==
    IF n = 0 THEN vm
    ELSE add_knowledge(StoreKnowledge(vm, sentences, n - 1, user_input, t),
                       Truncate(user_input, 50), sentences[n], <<"ai_response">>,
                       _extract_tags(sentences[n]), t).self

\* _extract_knowledge; with vector_memory None the first add_knowledge raises
_extract_knowledge(vm, user_input, ai_response, t, fail) ==
    LET sentences == KnowledgeSentences(ai_response)
    IN  IF IsNone(vm)
        THEN [self |-> vm, raised |-> sentences # <<>> \/ fail # NoFail]
        ELSE [self |-> StoreKnowledge(vm, sentences, Handled(sentences, fail),
                                      user_input, t),
              raised |-> fail # NoFail]

\* store_conversation at time t.  fails: add (the collection raises in step 1) and
\* the fail points of steps 2, 3 and 4.  propagate: an exception of a step is not
\* caught; graph_first: step 1 also asks for the knowledge graph.
\* Returns [mem, ret]; ret.ran holds the steps entered, ret.failed those that raised.
StoreSteps(mem, user_input, ai_response, context, t, fails, propagate, graph_first) ==
    LET vm0 == mem.vector_memory
        kg0 == mem.knowledge_graph
        pg0 == mem.personality_graph
        \* 1. store in the vector database
        has1 == ~IsNone(vm0) /\ (~graph_first \/ ~IsNone(kg0))
        added == add_conversation(vm0, user_input, ai_response, context, t)
        stored == has1 /\ ~fails.add
        vm1 == IF stored THEN added.self ELSE vm0
        conversation_id == IF stored THEN added.value ELSE LocalId(t)
        \* 2. extract and store entities
        run2 == mem.settings["auto_extract_entities"] /\ ~IsNone(kg0)
        r2 == _extract_and_store_entities(kg0, user_input, ai_response,
                                          conversation_id, t, fails.entities)
        kg2 == IF run2 THEN r2.self ELSE kg0
        fail2 == run2 /\ r2.raised
        \* 3. update personality insights
        run3 == mem.settings["personality_learning_enabled"] /\ ~IsNone(pg0)
                /\ ~(propagate /\ fail2)
        r3 == _update_personality_insights(pg0, user_input, ai_response, t,
                                           fails.personality)
        pg3 == IF run3 THEN r3.self ELSE pg0
        fail3 == run3 /\ r3.raised
        \* 4. extract knowledge
        run4 == mem.settings["knowledge_extraction_enabled"] /\ ~IsNone(kg0)
                /\ ~(propagate /\ (fail2 \/ fail3))
        r4 == _extract_knowledge(vm1, user_input, ai_response, t, fails.knowledge)
        vm4 == IF run4 THEN r4.self ELSE vm1
        fail4 == run4 /\ r4.raised
        failed == (IF fail2 THEN {2} ELSE {}) \cup (IF fail3 THEN {3} ELSE {})
                  \cup (IF fail4 THEN {4} ELSE {})
        raised == propagate /\ failed # {}
    IN  [mem |-> [mem EXCEPT !.vector_memory = vm4, !.knowledge_graph = kg2,
                             !.personality_graph = pg3],
         ret |-> [op |-> "store_conversation",
                  user_input |-> user_input, ai_response |-> ai_response,
                  at |-> t, fails |-> fails, stored |-> stored,
                  ran |-> {1} \cup (IF run2 THEN {2} ELSE {})
                              \cup (IF run3 THEN {3} ELSE {})
                              \cup (IF run4 THEN {4} ELSE {}),
                  failed |-> failed,
                  raised |-> raised,
                  value |-> IF raised THEN None
                            ELSE [conversation_id |-> conversation_id,
                                  processed |-> TRUE,
                                  timestamp |-> IsoFormat(t)]]]

\* store_conversation in which a failing step ends the call with its exception
store_conversation_propagate(mem, user_input, ai_response, context, t, fails) ==
    StoreSteps(mem, user_input, ai_response, context, t, fails, TRUE, FALSE)

\* store_conversation that writes the conversation only when the graph is there
store_conversation_graph_first(mem, user_input, ai_response, context, t, fails) ==
    StoreSteps(mem, user_input, ai_response, context, t, fails, FALSE, TRUE)

\* store_conversation that prunes the conversations older than a day as it stores
store_conversation_pruning(mem, user_input, ai_response, context, t, fails) ==
    CHOOSE result \in
        {[r EXCEPT !.mem.vector_memory =
              IF IsNone(@) THEN @ ELSE cleanup_old_data(@, 1, t)] :
            r \in {StoreSteps(mem, user_input, ai_response, context, t, fails,
                              FALSE, FALSE)}} : TRUE

store_conversation(mem, user_input, ai_response, context, t, fails) ==
    StoreSteps(mem, user_input, ai_response, context, t, fails, FALSE, FALSE)

\* list[:n]
Take(list, n) == SubSeq(list, 1, Min(n, Len(list)))

\* get_enhanced_context at time t: [raised, value].  fails says which of the four
\* lookups raise: conversations and knowledge inside the vector store, which
\* catches them itself; entities and personality inside the graphs, where the try
\* of this method catches them.
\* guarded = FALSE: the two graph lookups stand outside a try and a None check.
EnhancedContext(mem, query, max_items, t, fails, guarded) ==
    LET vm == mem.vector_memory
        kg == mem.knowledge_graph
        pg == mem.personality_graph
        similar_conversations ==
            IF IsNone(vm) THEN <<>>
            ELSE search_conversations(vm, query, max_items, fails.conversations)
        relevant_knowledge ==
            IF IsNone(vm) THEN <<>>
            ELSE search_knowledge(vm, query, max_items, fails.knowledge)
        related_entities ==
            IF IsNone(kg) \/ fails.entities THEN <<>>
            ELSE search_entities(kg, query, None)
        personality_summary ==
            IF IsNone(pg) \/ fails.personality THEN EmptyDict
            ELSE get_personality_summary(pg)
        raised == ~guarded /\ (IsNone(kg) \/ fails.entities
                               \/ IsNone(pg) \/ fails.personality)
    IN  [raised |-> raised,
         value |-> IF raised THEN None
                   ELSE [similar_conversations |-> similar_conversations,
                         relevant_knowledge |-> relevant_knowledge,
                         related_entities |-> Take(related_entities, max_items),
                         personality_insights |-> personality_summary,
                         query |-> query,
                         generated_at |-> IsoFormat(t)]]

\* get_enhanced_context without the try blocks and None checks of lookups 3 and 4
get_enhanced_context_unguarded(mem, query, max_items, t, fails) ==
    EnhancedContext(mem, query, max_items, t, fails, FALSE)

get_enhanced_context(mem, query, max_items, t, fails) ==
    EnhancedContext(mem, query, max_items, t, fails, TRUE)

\* get_enhanced_context that notes a mention on the best matching entity
get_enhanced_context_self_mentions(mem, query, max_items, t) ==
    IF IsNone(mem.knowledge_graph) THEN mem
    ELSE LET found == search_entities(mem.knowledge_graph, query, None)
         IN  IF found = <<>> THEN mem
             ELSE [mem EXCEPT !.knowledge_graph =
                      update_entity_from_conversation(@, found[1].entity_id, query, t)]

\* the orchestrator after get_enhanced_context, and so after
\* generate_smart_response_context: search_conversations, search_knowledge,
\* search_entities and get_personality_summary assign to no field, and the two
\* methods assign to locals only
get_enhanced_context_self(mem, query, max_items, t) == mem

\* the keys of the summary dict in insertion order: the trait names in node order
SummaryKeys(pg) ==
    LET nodes == pg.graph.nodes
        traits == SelectSeq(nodes, LAMBDA n :
                      DictGet(n.attrs, "type", None) = Str(<<"personality_trait">>)
                      /\ Truthy(DictGet(n.attrs, "trait_name", None)))
    IN  Dedup([i \in 1..Len(traits) |-> traits[i].attrs["trait_name"]])

\* the default max_items of get_enhanced_context
DefaultMaxItems == 5

\* the context_parts with the conversations held against the default threshold
ContextParts_default_threshold(mem, enhanced_context) ==
    LET convs == Take(enhanced_context.similar_conversations, 2)
        shown == SelectSeq(convs, LAMBDA c :
                     c.similarity > default_settings["vector_similarity_threshold"])
        conv_lines ==
            IF enhanced_context.similar_conversations = <<>> THEN <<>>
            ELSE <<<<"Previous relevant conversations:">>>>
                 \o Flatten([i \in 1..Len(shown) |->
                       << <<"- User asked:">> \o Truncate(shown[i].user_input.str, 100),
                          <<"  AI responded:">> \o Truncate(shown[i].ai_response.str, 100) >>])
        know == SelectSeq(Take(enhanced_context.relevant_knowledge, 2),
                          LAMBDA k : k.similarity > 6)
        know_lines ==
            IF enhanced_context.relevant_knowledge = <<>> THEN <<>>
            ELSE <<<<"\nRelevant knowledge:">>>>
                 \o [i \in 1..Len(know) |-> <<"-">> \o Truncate(know[i].content, 150)]
        personality == enhanced_context.personality_insights
        keys == IF DOMAIN personality = {} THEN <<>>
                ELSE Take(SummaryKeys(mem.personality_graph), 3)
        pers_lines ==
            IF DOMAIN personality = {} THEN <<>>
            ELSE <<<<"\nUser personality insights:">>>>
                 \o [i \in 1..Len(keys) |->
                        <<"-">> \o keys[i].str \o <<":">> \o personality[keys[i]].value.str]
        ents == Take(enhanced_context.related_entities, 3)
        ent_lines ==
            IF enhanced_context.related_entities = <<>> THEN <<>>
            ELSE <<<<"\nRelated entities:">>>>
                 \o [i \in 1..Len(ents) |->
                        <<"-">> \o ents[i].entity_id \o <<":">> \o ents[i].type.str]
    IN  conv_lines \o know_lines \o pers_lines \o ent_lines

\* the context_parts generate_smart_response_context builds from the bundle, as
\* lines ("\n".join of no line is the empty string)
ContextParts(mem, enhanced_context) ==
    LET convs == Take(enhanced_context.similar_conversations, 2)
        shown == SelectSeq(convs, LAMBDA c :
                     c.similarity > mem.settings["vector_similarity_threshold"])
        conv_lines ==
            IF enhanced_context.similar_conversations = <<>> THEN <<>>
            ELSE <<<<"Previous relevant conversations:">>>>
                 \o Flatten([i \in 1..Len(shown) |->
                       << <<"- User asked:">> \o Truncate(shown[i].user_input.str, 100),
                          <<"  AI responded:">> \o Truncate(shown[i].ai_response.str, 100) >>])
        know == SelectSeq(Take(enhanced_context.relevant_knowledge, 2),
                          LAMBDA k : k.similarity > 6)
        know_lines ==
            IF enhanced_context.relevant_knowledge = <<>> THEN <<>>
            ELSE <<<<"\nRelevant knowledge:">>>>
                 \o [i \in 1..Len(know) |-> <<"-">> \o Truncate(know[i].content, 150)]
        personality == enhanced_context.personality_insights
        keys == IF DOMAIN personality = {} THEN <<>>
                ELSE Take(SummaryKeys(mem.personality_graph), 3)
        pers_lines ==
            IF DOMAIN personality = {} THEN <<>>
            ELSE <<<<"\nUser personality insights:">>>>
                 \o [i \in 1..Len(keys) |->
                        <<"-">> \o keys[i].str \o <<":">> \o personality[keys[i]].value.str]
        ents == Take(enhanced_context.related_entities, 3)
        ent_lines ==
            IF enhanced_context.related_entities = <<>> THEN <<>>
            ELSE <<<<"\nRelated entities:">>>>
                 \o [i \in 1..Len(ents) |->
                        <<"-">> \o ents[i].entity_id \o <<":">> \o ents[i].type.str]
    IN  conv_lines \o know_lines \o pers_lines \o ent_lines

\* generate_smart_response_context: [raised, value]; the bundle is computed once
generate_smart_response_context(mem, user_input, t, fails) ==
    CHOOSE result \in
        {[raised |-> r.raised,
          value |-> IF r.raised THEN None ELSE ContextParts(mem, r.value)] :
            r \in {get_enhanced_context(mem, user_input, DefaultMaxItems, t, fails)}} :
        TRUE

\* the probes of analyze_conversation_patterns
common_topics ==
    <<"work", "technology", "personal", "help", "question", "problem", "learn",
      "understand">>

RECURSIVE Sum(_)
Sum(numbers) == IF numbers = <<>> THEN 0 ELSE Head(numbers) + Sum(Tail(numbers))

\* a call on a subsystem that is None
AttributeError == [raised |-> TRUE, error |-> "AttributeError"]

\* analyze_conversation_patterns(days): [raised, value]; no subsystem is checked
\* for None before it is used.  avg_similarity is kept as sum and count.
analyze_conversation_patterns(mem, days, t) ==
    IF IsNone(mem.vector_memory) \/ IsNone(mem.knowledge_graph)
       \/ IsNone(mem.personality_graph)
    THEN AttributeError
    ELSE LET Probe(topic) == search_conversations(mem.vector_memory, <<topic>>, 20, FALSE)
             personality_summary == get_personality_summary(mem.personality_graph)
         IN  [raised |-> FALSE,
              value |->
                [analysis_period_days |-> days,
                 topic_frequency |->
                    [i \in 1..Len(common_topics) |->
                        LET results == Probe(common_topics[i])
                        IN  [topic |-> common_topics[i],
                             count |-> Len(SelectSeq(results,
                                                     LAMBDA r : r.similarity > 5)),
                             avg_similarity |->
                                [sum |-> Sum([k \in 1..Len(results) |->
                                                 results[k].similarity]),
                                 of |-> Len(results)]]],
                 knowledge_graph_stats |-> graph_get_stats(mem.knowledge_graph),
                 personality_traits_count |-> Cardinality(DOMAIN personality_summary),
                 dominant_traits |-> Take(SummaryKeys(mem.personality_graph), 5),
                 analysis_timestamp |-> IsoFormat(t)]]

\* sorted(topic_frequency, key=count, reverse=True): stable, highest count first
RECURSIVE SortByCountDesc(_, _)
SortByCountDesc(items, hi) ==
    IF hi < 0 THEN <<>>
    ELSE SelectSeq(items, LAMBDA r : r.count = hi) \o SortByCountDesc(items, hi - 1)

\* get_memory_insights: [raised, value]
get_memory_insights(mem, t) ==
    IF IsNone(mem.vector_memory) \/ IsNone(mem.knowledge_graph)
       \/ IsNone(mem.personality_graph)
    THEN AttributeError
    ELSE LET vector_stats == vector_get_stats(mem.vector_memory)
             kg_stats == graph_get_stats(mem.knowledge_graph)
             keys == SummaryKeys(mem.personality_graph)
             patterns == analyze_conversation_patterns(mem, 7, t).value
             top_topics == Take(SortByCountDesc(patterns.topic_frequency, 20), 2)
         IN  [raised |-> FALSE,
              value |->
                (IF vector_stats.conversations > 50
                 THEN <<[insight |-> "conversations", n |-> vector_stats.conversations]>>
                 ELSE <<>>)
                \o (IF vector_stats.knowledge_items > 10
                    THEN <<[insight |-> "knowledge", n |-> vector_stats.knowledge_items]>>
                    ELSE <<>>)
                \o (IF kg_stats.nodes > 20
                    THEN <<[insight |-> "graph", n |-> kg_stats.nodes,
                            edges |-> kg_stats.edges]>>
                    ELSE <<>>)
                \o (IF Len(keys) > 3
                    THEN <<[insight |-> "traits", traits |-> Take(keys, 3)]>>
                    ELSE <<>>)
                \o (IF top_topics # <<>>
                    THEN <<[insight |-> "topics",
                            topics |-> [i \in 1..Len(top_topics) |-> top_topics[i].topic]]>>
                    ELSE <<>>)]

\* export_memory_snapshot: [raised, value, file]; write_fails: the export file cannot
\* be written, and "" is returned
export_memory_snapshot(mem, export_path, t, write_fails) ==
    IF IsNone(mem.vector_memory) \/ IsNone(mem.knowledge_graph)
       \/ IsNone(mem.personality_graph)
    THEN AttributeError
    ELSE LET snapshot ==
                 [export_timestamp |-> IsoFormat(t),
                  vector_db_stats |-> vector_get_stats(mem.vector_memory),
                  knowledge_graph_stats |-> graph_get_stats(mem.knowledge_graph),
                  personality_summary |-> get_personality_summary(mem.personality_graph),
                  memory_settings |-> mem.settings,
                  conversation_patterns |->
                      analyze_conversation_patterns(mem, 30, t).value]
         IN  IF write_fails
             THEN [raised |-> FALSE, value |-> <<>>, file |-> None]
             ELSE [raised |-> FALSE, value |-> export_path, file |-> snapshot]

\* the age, in days, from which cleanup_and_optimize deletes conversations
CleanupDays == 90

\* cleanup_and_optimize: [raised, mem]
cleanup_and_optimize(mem, t) ==
    IF IsNone(mem.vector_memory)
    THEN [raised |-> TRUE, error |-> "AttributeError", mem |-> mem]
    ELSE [raised |-> FALSE,
          mem |-> [mem EXCEPT !.vector_memory = cleanup_old_data(@, CleanupDays, t)]]

\* ---------------------------------------------------------------- EntityGraph runs
\* Inputs of the graph specification.  Numbers stand for tenths (Num(8) is 0.8).
EntityIds == {<<"a">>, <<"A", "b">>}
EntityTypes == {<<"person">>, <<"place">>}
PropertyDicts ==
    {EmptyDict,
     [name |-> Str(<<"A", "b">>)],
     [name |-> Str(<<"B">>), confidence |-> Num(8)],
     [type |-> Str(<<"place">>)]}
RelationTypes == {<<"knows">>}
Queries == {<<>>, <<"A">>, <<"a", "B">>, <<"place">>}
TypeFilters == {None, Str(<<"person">>)}

\* the add_entity calls add_relationship makes for its missing endpoints
EndpointCalls(kg, source, target) ==
    (IF has_node(kg.graph, source) THEN <<>>
     ELSE <<[op |-> "add_entity", entity_id |-> source,
             entity_type |-> <<"unknown">>, properties |-> EmptyDict]>>)
    \o
    (IF has_node(kg.graph, target) \/ target = source THEN <<>>
     ELSE <<[op |-> "add_entity", entity_id |-> target,
             entity_type |-> <<"unknown">>, properties |-> EmptyDict]>>)

InitGraph ==
    /\ knowledge_graph = NewKnowledgeGraph
    /\ personality_graph = NewKnowledgeGraph
    /\ vector_memory = None
    /\ settings = EmptyDict
    /\ settings_file = None
    /\ proactive = None
    /\ now = 0
    /\ calls = <<>>
    /\ ret = [op |-> "init"]

AddEntity(entity_id, entity_type, properties) ==
    /\ now < MaxGraphCalls
    /\ knowledge_graph' = add_entity(knowledge_graph, entity_id, entity_type, properties, now)
    /\ calls' = Append(calls, [op |-> "add_entity", entity_id |-> entity_id,
                               entity_type |-> entity_type, properties |-> properties])
    /\ ret' = [op |-> "add_entity", value |-> TRUE]
    /\ now' = now + 1
    /\ UNCHANGED <<personality_graph, vector_memory, settings, settings_file, proactive>>

AddRelationship(source, target, relation_type, properties) ==
    /\ now < MaxGraphCalls
    /\ knowledge_graph' =
           add_relationship(knowledge_graph, source, target, relation_type, properties, now)
    /\ calls' = calls \o EndpointCalls(knowledge_graph, source, target)
                      \o <<[op |-> "add_relationship", source |-> source,
                            target |-> target, relation_type |-> relation_type]>>
    /\ ret' = [op |-> "add_relationship", source |-> source, target |-> target,
               before |-> knowledge_graph.graph, value |-> TRUE]
    /\ now' = now + 1
    /\ UNCHANGED <<personality_graph, vector_memory, settings, settings_file, proactive>>

SearchEntities(query, entity_type) ==
    /\ now < MaxGraphCalls
    /\ ret' = [op |-> "search_entities", query |-> query,
               entity_type |-> entity_type,
               value |-> search_entities(knowledge_graph, query, entity_type)]
    /\ calls' = Append(calls, [op |-> "search_entities", query |-> query])
    /\ now' = now + 1
    /\ UNCHANGED <<knowledge_graph, personality_graph, vector_memory, settings, settings_file, proactive>>

NextGraph ==
    \/ \E id \in EntityIds, ty \in EntityTypes, props \in PropertyDicts :
           AddEntity(id, ty, props)
    \/ \E s \in EntityIds, t \in EntityIds, rt \in RelationTypes :
           AddRelationship(s, t, rt, EmptyDict)
    \/ \E q \in Queries, f \in TypeFilters : SearchEntities(q, f)

SpecGraph == InitGraph /\ [][NextGraph]_vars

\* ---------------------------------------------------------------- EntityGraph search runs
\* The graph file of an earlier session: n entities, added in the order 1..n.  Every
\* step-th entity has an id that starts with "a"; the even ones are persons named
\* "a", the others places; every third carries a note that holds "a".
Steps == {1, 2, 5}

StoredEntityId(i, step) == <<(IF i % step = 0 THEN "a" ELSE "b"), ToString(i)>>

StoredEntityType(i) == IF i % 2 = 0 THEN <<"person">> ELSE <<"place">>

StoredProperties(i) ==
    DictUpdate(IF i % 2 = 0 THEN [name |-> Str(<<"A">>)] ELSE EmptyDict,
               IF i % 3 = 0 THEN [note |-> Str(<<"b", "a">>), rank |-> Num(i)]
               ELSE EmptyDict)

\* the metadata after the add_entity calls for entities 1..n
RECURSIVE StoredMetadata(_, _)
StoredMetadata(n, step) ==
    IF n = 0 THEN EmptyDict
    ELSE CHOOSE metadata \in
             {UpdateMetadata(before, StoredEntityId(n, step), StoredEntityType(n)) :
                 before \in {StoredMetadata(n - 1, step)}} : TRUE

\* KnowledgeGraph.__init__ with these files on disk: _load_graph and _load_metadata
StoredGraph(n, step) ==
    LET graph == [nodes |-> [i \in 1..n |->
                                [id |-> StoredEntityId(i, step),
                                 attrs |-> EntityNodeAttrs(StoredEntityType(i),
                                                           StoredProperties(i), 0)]],
                  edges |-> <<>>]
        metadata == StoredMetadata(n, step)
    IN  [graph |-> graph, metadata |-> metadata,
         graph_file |-> pickle_dump(graph), metadata_file |-> json_dumps(metadata)]

InitSearch ==
    /\ knowledge_graph \in {StoredGraph(n, step) : n \in 0..MaxNodes, step \in Steps}
    /\ personality_graph = NewKnowledgeGraph
    /\ vector_memory = None
    /\ settings = EmptyDict
    /\ settings_file = None
    /\ proactive = None
    /\ now = 0
    /\ calls = <<>>
    /\ ret = [op |-> "init"]

NextSearch ==
    \E q \in {<<"a">>, <<"A", "1">>}, f \in TypeFilters : SearchEntities(q, f)

SpecSearch == InitSearch /\ [][NextSearch]_vars

\* ---------------------------------------------------------------- EntityGraph persistence runs
\* Inputs of the persistence specification.  A properties value that is a number is
\* no dict.
PersistIds == {<<"a">>, <<"b">>}
PersistTypes == {<<"person">>, <<"place">>}
PersistProperties == {EmptyDict, [name |-> Str(<<"A">>)], Num(3)}
Disks == {DiskOk, "denied", "full"}
Snippets == {<<"Xin", "chao">>}
StopPoints == {"graph", "metadata"}
StoredMentions == {5}

\* the instance of an earlier session: entity "a" added and then mentioned n times
RECURSIVE EarlierSession(_)
EarlierSession(n) ==
    IF n = 0 THEN add_entity(NewKnowledgeGraph, <<"a">>, <<"person">>, EmptyDict, 0)
    ELSE CHOOSE kg \in {update_entity_from_conversation(
                            before, <<"a">>, <<"old", DigitLetter(n)>>, 0) :
                        before \in {EarlierSession(n - 1)}} : TRUE

\* the data directories a run starts on: an empty one, the one an earlier session
\* left, and one whose metadata.json holds {"person": 3}
DataDirs ==
    {[graph_file |-> None, metadata_file |-> None],
     [graph_file |-> None, metadata_file |-> json_dumps(<<"person">> :> Num(3))]}
    \cup {[graph_file |-> EarlierSession(n).graph_file,
            metadata_file |-> EarlierSession(n).metadata_file] : n \in StoredMentions}

InitPersist ==
    /\ knowledge_graph \in
           {KnowledgeGraph_init(dir.graph_file, dir.metadata_file) : dir \in DataDirs}
    /\ personality_graph = KnowledgeGraph_init(None, None)
    /\ vector_memory = None
    /\ settings = EmptyDict
    /\ settings_file = None
    /\ proactive = None
    /\ now = 1
    /\ calls = <<>>
    /\ ret = [op |-> "init"]

PersistFrame == UNCHANGED <<vector_memory, settings, settings_file, proactive, calls>>

AddEntityOnDisk(entity_id, entity_type, properties, disk) ==
    /\ now <= MaxPersistCalls
    /\ \E r \in {AddEntitySteps(knowledge_graph, entity_id, entity_type, properties,
                                 now, disk)} :
           /\ knowledge_graph' = r.self
           /\ ret' = [op |-> "add_entity", entity_id |-> entity_id,
                      entity_type |-> entity_type, properties |-> properties,
                      disk |-> disk, before |-> knowledge_graph, value |-> r.value]
    /\ now' = now + 1
    /\ UNCHANGED personality_graph
    /\ PersistFrame

AddRelationshipOnDisk(source, target, relation_type, disk) ==
    /\ now <= MaxPersistCalls
    /\ \E r \in {AddRelationshipSteps(knowledge_graph, source, target, relation_type,
                                       EmptyDict, now, disk)} :
           /\ knowledge_graph' = r.self
           /\ ret' = [op |-> "add_relationship", source |-> source, target |-> target,
                      disk |-> disk, before |-> knowledge_graph, value |-> r.value]
    /\ now' = now + 1
    /\ UNCHANGED personality_graph
    /\ PersistFrame

UpdateEntityFromConversation(entity_id, conversation, disk) ==
    /\ now <= MaxPersistCalls
    /\ knowledge_graph' =
           UpdateEntitySteps(knowledge_graph, entity_id, conversation, now, disk)
    /\ ret' = [op |-> "update_entity_from_conversation", entity_id |-> entity_id,
               conversation |-> conversation, disk |-> disk,
               before |-> knowledge_graph]
    /\ now' = now + 1
    /\ UNCHANGED personality_graph
    /\ PersistFrame

AddPersonalityTrait(trait_name, value, confidence) ==
    /\ now <= MaxPersistCalls
    /\ personality_graph' =
           add_personality_trait(personality_graph, trait_name, value, confidence,
                                 <<>>, now)
    /\ ret' = [op |-> "add_personality_trait", trait_name |-> trait_name,
               disk |-> DiskOk, before |-> personality_graph]
    /\ now' = now + 1
    /\ UNCHANGED knowledge_graph
    /\ PersistFrame

GetClusters ==
    /\ now <= MaxPersistCalls
    /\ ret' = [op |-> "get_clusters", value |-> get_clusters(knowledge_graph)]
    /\ now' = now + 1
    /\ UNCHANGED <<knowledge_graph, personality_graph>>
    /\ PersistFrame

\* the process ends and a new one constructs both graphs on the same directories
RestartGraphs ==
    /\ now <= MaxPersistCalls
    /\ knowledge_graph' = KnowledgeGraph_init(knowledge_graph.graph_file,
                                              knowledge_graph.metadata_file)
    /\ personality_graph' = KnowledgeGraph_init(personality_graph.graph_file,
                                                personality_graph.metadata_file)
    /\ ret' = [op |-> "restart", before |-> knowledge_graph,
               personality_before |-> personality_graph]
    /\ now' = now + 1
    /\ PersistFrame

\* the process is stopped inside a save of add_entity, after open() has emptied the
\* file and before the dump is complete; a new process then constructs the graph
StopDuringSave(entity_id, entity_type, point) ==
    /\ now <= MaxPersistCalls
    /\ ~MetadataRaises(knowledge_graph.metadata, entity_type)
    /\ \E after \in {add_entity(knowledge_graph, entity_id, entity_type, EmptyDict, now)} :
           /\ knowledge_graph' =
                  IF point = "graph"
                  THEN KnowledgeGraph_init(Truncated, knowledge_graph.metadata_file)
                  ELSE KnowledgeGraph_init(after.graph_file, Truncated)
           /\ ret' = [op |-> "stopped", point |-> point,
                      before |-> knowledge_graph, after |-> after]
    /\ now' = now + 1
    /\ UNCHANGED personality_graph
    /\ PersistFrame

NextPersist ==
    \/ \E id \in PersistIds, ty \in PersistTypes, props \in PersistProperties :
           AddEntityOnDisk(id, ty, props, DiskOk)
    \/ \E id \in PersistIds, disk \in Disks \ {DiskOk} :
           AddEntityOnDisk(id, <<"place">>, EmptyDict, disk)
    \/ \E s \in PersistIds, t \in PersistIds : AddRelationshipOnDisk(s, t, <<"knows">>, DiskOk)
    \/ \E disk \in Disks \ {DiskOk} :
           AddRelationshipOnDisk(<<"a">>, <<"b">>, <<"knows">>, disk)
    \/ \E id \in PersistIds, text \in Snippets, disk \in Disks :
           UpdateEntityFromConversation(id, text, disk)
    \/ AddPersonalityTrait(<<"interests">>, <<"A">>, 8)
    \/ GetClusters
    \/ RestartGraphs
    \/ \E id \in PersistIds, point \in StopPoints : StopDuringSave(id, <<"place">>, point)

SpecPersist == InitPersist /\ [][NextPersist]_vars

\* ---------------------------------------------------------------- EntityGraph path runs
\* The graph file of an earlier session: add_relationship("s", "a") p times, then
\* ("a", "t") q times, then ("s", "t") d times, on a new graph.
PathNodes == <<<<"s">>, <<"a">>, <<"t">>>>

StoredRelations(p, q, d) ==
    LET Edges(source, target, n) ==
            [k \in 1..n |-> [source |-> source, target |-> target, key |-> k - 1,
                             attrs |-> EdgeAttrs(<<"knows">>, EmptyDict, 0)]]
        graph == [nodes |-> [i \in 1..3 |->
                                [id |-> PathNodes[i],
                                 attrs |-> EntityNodeAttrs(<<"unknown">>, EmptyDict, 0)]],
                  edges |-> Edges(<<"s">>, <<"a">>, p) \o Edges(<<"a">>, <<"t">>, q)
                            \o Edges(<<"s">>, <<"t">>, d)]
        metadata == (<<"unknown">> :> [count |-> 3, examples |-> PathNodes])
    IN  [graph |-> graph, metadata |-> metadata,
         graph_file |-> pickle_dump(graph), metadata_file |-> json_dumps(metadata)]

PathEndpoints == {<<"s">>, <<"a">>, <<"t">>, <<"z">>}
PathLengths == {1, 2, 3}

InitPaths ==
    /\ knowledge_graph \in {StoredRelations(p, q, d) :
                               p \in 1..MaxParallel, q \in 1..MaxParallel, d \in {0, 1}}
    /\ personality_graph = NewKnowledgeGraph
    /\ vector_memory = None
    /\ settings = EmptyDict
    /\ settings_file = None
    /\ proactive = None
    /\ now = 0
    /\ calls = <<>>
    /\ ret = [op |-> "init"]

FindPath(source, target, max_length, trivial) ==
    /\ ret' = [op |-> "find_path", source |-> source, target |-> target,
               max_length |-> max_length,
               value |-> find_path(knowledge_graph, source, target, max_length,
                                   trivial)]
    /\ UNCHANGED <<knowledge_graph, personality_graph, vector_memory, settings, settings_file, proactive, now,
                   calls>>

NextPaths ==
    \E source \in PathEndpoints, target \in PathEndpoints, max_length \in PathLengths,
       trivial \in BOOLEAN : FindPath(source, target, max_length, trivial)

SpecPaths == InitPaths /\ [][NextPaths]_vars

\* ---------------------------------------------------------------- VectorStore runs
\* In these runs now is the day of the clock; Tick lets a day pass.
VectorTurns ==
    {[user_input |-> <<"Xin", "chao">>,
      ai_response |-> <<"Chao", "ban!", "12/05/2024">>],
     [user_input |-> <<"AI">>,
      ai_response |-> <<"AI", "la", "tri", "tue", "nhan", "tao", ".">>]}
VectorQueries == {<<"Xin", "chao">>, <<"AI">>}
ResultCounts == {1, 5}
KnowledgeItems == {[topic |-> <<"AI">>, content |-> <<"AI", "la", "tri", "tue">>]}
VectorTraits == {<<"a">>, <<"b">>}
VectorTraitValues == {[value |-> <<"A">>, confidence |-> 8],
                      [value |-> <<"B">>, confidence |-> 10]}
CleanupAges == {1}

\* the day the runs start at
FirstDay == 2

\* the database an earlier session left in db_path: a conversation of day 0 and
\* one of day 1, a knowledge item and a trait
StoredVectorMemory ==
    LET turn1 == [user_input |-> <<"Xin", "chao">>,
                  ai_response |-> <<"Chao", "ban!", "12/05/2024">>]
        turn2 == [user_input |-> <<"AI">>,
                  ai_response |-> <<"AI", "la", "tri", "tue", "nhan", "tao", ".">>]
        vm1 == add_conversation(NewChromaMemoryManager, turn1.user_input,
                                turn1.ai_response, None, 0).self
        vm2 == add_conversation(vm1, turn2.user_input, turn2.ai_response, None, 1).self
        vm3 == add_knowledge(vm2, <<"AI">>, <<"AI", "la", "tri", "tue">>, <<"user">>,
                             <<>>, 1).self
    IN  update_personality_trait(vm3, <<"a">>, <<"A">>, 8, 1).self

InitVector ==
    /\ vector_memory \in {NewChromaMemoryManager, StoredVectorMemory}
    /\ knowledge_graph = None
    /\ personality_graph = None
    /\ settings = _load_settings(None)
    /\ settings_file = None
    /\ proactive = None
    /\ now = FirstDay
    /\ calls = <<>>
    /\ ret = [op |-> "init"]

Tick ==
    /\ now < FirstDay + MaxDays
    /\ now' = now + 1
    /\ UNCHANGED <<knowledge_graph, personality_graph, vector_memory, settings, settings_file, proactive, calls,
                   ret>>

\* failed: conversations_collection.add raises; nothing catches it
AddConversation(turn, context, failed) ==
    /\ Len(calls) < MaxVectorCalls
    /\ \E r \in {add_conversation(vector_memory, turn.user_input, turn.ai_response,
                                  context, now)} :
           /\ vector_memory' = IF failed THEN vector_memory ELSE r.self
           /\ ret' = [op |-> "add_conversation", failed |-> failed, raised |-> failed,
                      value |-> IF failed THEN None ELSE Str(r.value)]
    /\ calls' = Append(calls, [op |-> "add_conversation", failed |-> failed,
                               user_input |-> turn.user_input,
                               ai_response |-> turn.ai_response])
    /\ UNCHANGED <<knowledge_graph, personality_graph, settings, settings_file, proactive, now>>

\* failed: knowledge_collection.add raises; nothing catches it
AddKnowledge(item, failed) ==
    /\ Len(calls) < MaxVectorCalls
    /\ \E r \in {add_knowledge(vector_memory, item.topic, item.content, <<"user">>,
                               <<>>, now)} :
           /\ vector_memory' = IF failed THEN vector_memory ELSE r.self
           /\ ret' = [op |-> "add_knowledge", failed |-> failed, raised |-> failed,
                      value |-> IF failed THEN None ELSE Str(r.value)]
    /\ calls' = Append(calls, [op |-> "add_knowledge", failed |-> failed])
    /\ UNCHANGED <<knowledge_graph, personality_graph, settings, settings_file, proactive, now>>

\* failed: personality_collection.add raises after the delete; nothing catches it
UpdatePersonalityTrait(trait, value, confidence, failed) ==
    /\ Len(calls) < MaxUpserts
    /\ \E r \in {update_personality_trait(vector_memory, trait, value, confidence,
                                          now)} :
           /\ vector_memory' = IF failed THEN r.deleted ELSE r.self
           /\ ret' = [op |-> "update_personality_trait", failed |-> failed,
                      raised |-> failed,
                      value |-> IF failed THEN None ELSE Str(r.value)]
    /\ calls' = Append(calls, [op |-> "update_personality_trait", failed |-> failed,
                               trait |-> trait, value |-> value,
                               confidence |-> confidence])
    /\ UNCHANGED <<knowledge_graph, personality_graph, settings, settings_file, proactive, now>>

CleanupOldData(days) ==
    /\ Len(calls) < MaxVectorCalls
    /\ vector_memory' = cleanup_old_data(vector_memory, days, now)
    /\ ret' = [op |-> "cleanup_old_data", days |-> days, at |-> now,
               before |-> vector_memory, raised |-> FALSE]
    /\ calls' = Append(calls, [op |-> "cleanup_old_data", days |-> days])
    /\ UNCHANGED <<knowledge_graph, personality_graph, settings, settings_file, proactive, now>>

SearchConversations(query, n_results) ==
    /\ ret' = [op |-> "search_conversations", query |-> query,
               n_results |-> n_results, raised |-> FALSE,
               value |-> search_conversations(vector_memory, query, n_results, FALSE)]
    /\ UNCHANGED <<knowledge_graph, personality_graph, vector_memory, settings, settings_file, proactive, now,
                   calls>>

NextVector ==
    \/ Tick
    \/ \E turn \in VectorTurns : AddConversation(turn, None, FALSE)
    \/ \E turn \in {t \in VectorTurns : t.user_input = <<"AI">>} :
           AddConversation(turn, None, TRUE)
    \/ \E item \in KnowledgeItems, failed \in BOOLEAN : AddKnowledge(item, failed)
    \/ \E days \in CleanupAges : CleanupOldData(days)
    \/ \E q \in VectorQueries, k \in ResultCounts : SearchConversations(q, k)

SpecVector == InitVector /\ [][NextVector]_vars

\* runs of update_personality_trait on a new database
InitProfile ==
    /\ vector_memory = NewChromaMemoryManager
    /\ knowledge_graph = None
    /\ personality_graph = None
    /\ settings = _load_settings(None)
    /\ settings_file = None
    /\ proactive = None
    /\ now = FirstDay
    /\ calls = <<>>
    /\ ret = [op |-> "init"]

NextProfile ==
    \/ \E trait \in VectorTraits, o \in VectorTraitValues :
           UpdatePersonalityTrait(trait, o.value, o.confidence, FALSE)
    \/ UpdatePersonalityTrait(<<"a">>, <<"B">>, 10, TRUE)

SpecProfile == InitProfile /\ [][NextProfile]_vars

\* ---------------------------------------------------------------- PersonalityModel runs
TraitNames == {<<>>, <<"a">>, <<"b">>}
\* what one observation of a trait says: a value, a confidence (tenths), a context
TraitObservations ==
    {[value |-> <<"A">>, confidence |-> 8, context |-> <<>>],
     [value |-> <<"B">>, confidence |-> 6, context |-> <<"a", "b">>],
     [value |-> <<"B">>, confidence |-> 10, context |-> <<>>]}

InitPersonality ==
    /\ knowledge_graph = NewKnowledgeGraph
    /\ personality_graph = NewKnowledgeGraph
    /\ vector_memory = None
    /\ settings = EmptyDict
    /\ settings_file = None
    /\ proactive = None
    /\ now = 0
    /\ calls = <<>>
    /\ ret = [op |-> "init"]

AddTrait(trait_name, value, confidence, context) ==
    /\ now < MaxTraitCalls
    /\ personality_graph' =
           add_personality_trait(personality_graph, trait_name, value, confidence, context, now)
    /\ calls' = Append(calls, [op |-> "add_personality_trait", trait_name |-> trait_name,
                               value |-> value, confidence |-> confidence,
                               context |-> context])
    /\ ret' = [op |-> "add_personality_trait"]
    /\ now' = now + 1
    /\ UNCHANGED <<knowledge_graph, vector_memory, settings, settings_file, proactive>>

NextPersonality ==
    \E tn \in TraitNames, o \in TraitObservations :
        AddTrait(tn, o.value, o.confidence, o.context)

SpecPersonality == InitPersonality /\ [][NextPersonality]_vars

\* ---------------------------------------------------------------- EnhancedMemorySystem runs
\* The conversation turns (words without diacritics).
Turns ==
    {[user_input |-> <<"Xin", "chao">>,
      ai_response |-> <<"Chao", "ban!", "12/05/2024">>],
     [user_input |-> <<"Xin", "chao", "AI">>,
      ai_response |-> <<"AI", "la", "tri", "tue", "nhan", "tao", ".">>]}

\* what fails inside one store_conversation call
NoFaults == [add |-> FALSE, entities |-> NoFail, personality |-> NoFail,
             knowledge |-> NoFail]
StoreFaults ==
    {NoFaults,
     [NoFaults EXCEPT !.add = TRUE],
     [NoFaults EXCEPT !.entities = 0],
     [NoFaults EXCEPT !.entities = 1],
     [NoFaults EXCEPT !.personality = 1],
     [NoFaults EXCEPT !.knowledge = 0],
     [add |-> FALSE, entities |-> 0, personality |-> 0, knowledge |-> 0]}

\* memory_settings.json at construction: None while the file does not exist
SettingsFiles ==
    {None,
     [personality_learning_enabled |-> FALSE],
     [auto_extract_entities |-> FALSE, knowledge_extraction_enabled |-> FALSE]}

\* which lookups of one get_enhanced_context call raise
NoLookupFaults == [conversations |-> FALSE, knowledge |-> FALSE, entities |-> FALSE,
                   personality |-> FALSE]
LookupFaults ==
    {NoLookupFaults,
     [NoLookupFaults EXCEPT !.conversations = TRUE],
     [NoLookupFaults EXCEPT !.knowledge = TRUE],
     [NoLookupFaults EXCEPT !.entities = TRUE],
     [NoLookupFaults EXCEPT !.personality = TRUE],
     [conversations |-> TRUE, knowledge |-> TRUE, entities |-> TRUE,
      personality |-> TRUE]}

ContextQueries == {<<"Xin">>, <<"AI", "la">>}
MaxItemsValues == {1, DefaultMaxItems}

\* the orchestrator as the record of its fields
Mem == [vector_memory |-> vector_memory, knowledge_graph |-> knowledge_graph,
        personality_graph |-> personality_graph, settings |-> settings]

\* __init__: each subsystem is there or, its constructor having failed, None
Constructed(files) ==
    /\ vector_memory \in {None, NewChromaMemoryManager}
    /\ knowledge_graph \in {None, NewKnowledgeGraph}
    /\ personality_graph \in {None, NewKnowledgeGraph}
    /\ settings_file \in files
    /\ proactive = None
    /\ settings = _load_settings(settings_file)
    /\ now = 0
    /\ calls = <<>>
    /\ ret = [op |-> "init"]

InitStore == Constructed(SettingsFiles)

InitMemory == Constructed({None})

Store(turn, context, fails) ==
    /\ now < MaxMemoryCalls
    /\ LET r == store_conversation(Mem, turn.user_input, turn.ai_response, context,
                                   now, fails)
       IN  /\ vector_memory' = r.mem.vector_memory
           /\ knowledge_graph' = r.mem.knowledge_graph
           /\ personality_graph' = r.mem.personality_graph
           /\ ret' = r.ret
    /\ calls' = Append(calls, [op |-> "store_conversation",
                               user_input |-> turn.user_input,
                               ai_response |-> turn.ai_response, fails |-> fails])
    /\ now' = now + 1
    /\ UNCHANGED <<settings, settings_file, proactive>>

NextStore ==
    \E turn \in Turns, fails \in StoreFaults : Store(turn, None, fails)

SpecStore == InitStore /\ [][NextStore]_vars

Retrieve(query, max_items, fails) ==
    /\ LET r == get_enhanced_context(Mem, query, max_items, now, fails)
       IN  ret' = [op |-> "get_enhanced_context", query |-> query,
                   max_items |-> max_items, fails |-> fails,
                   raised |-> r.raised, value |-> r.value]
    /\ UNCHANGED <<knowledge_graph, personality_graph, vector_memory, settings, settings_file, proactive, now,
                   calls>>

GenerateSmartResponseContext(user_input, fails) ==
    /\ \E r \in {generate_smart_response_context(Mem, user_input, now, fails)} :
           ret' = [op |-> "generate_smart_response_context", query |-> user_input,
                   fails |-> fails, raised |-> r.raised, value |-> r.value]
    /\ UNCHANGED <<knowledge_graph, personality_graph, vector_memory, settings, settings_file, proactive, now,
                   calls>>

AnalyzeConversationPatterns(days) ==
    /\ LET r == analyze_conversation_patterns(Mem, days, now)
       IN  ret' = [op |-> "analyze_conversation_patterns", raised |-> r.raised,
                   value |-> IF r.raised THEN None ELSE r.value]
    /\ UNCHANGED <<knowledge_graph, personality_graph, vector_memory, settings, settings_file, proactive, now,
                   calls>>

GetMemoryInsights ==
    /\ LET r == get_memory_insights(Mem, now)
       IN  ret' = [op |-> "get_memory_insights", raised |-> r.raised,
                   value |-> IF r.raised THEN None ELSE r.value]
    /\ UNCHANGED <<knowledge_graph, personality_graph, vector_memory, settings, settings_file, proactive, now,
                   calls>>

ExportMemorySnapshot(export_path, write_fails) ==
    /\ LET r == export_memory_snapshot(Mem, export_path, now, write_fails)
       IN  ret' = [op |-> "export_memory_snapshot", raised |-> r.raised,
                   value |-> IF r.raised THEN None ELSE r.value]
    /\ UNCHANGED <<knowledge_graph, personality_graph, vector_memory, settings, settings_file, proactive, now,
                   calls>>

CleanupAndOptimize ==
    /\ now < MaxMemoryCalls
    /\ LET r == cleanup_and_optimize(Mem, now)
       IN  /\ vector_memory' = r.mem.vector_memory
           /\ ret' = [op |-> "cleanup_and_optimize", raised |-> r.raised,
                      value |-> None]
    /\ calls' = Append(calls, [op |-> "cleanup_and_optimize"])
    /\ now' = now + 1
    /\ UNCHANGED <<knowledge_graph, personality_graph, settings, settings_file, proactive>>

NextMemory ==
    \/ \E turn \in Turns : Store(turn, None, NoFaults)
    \/ \E q \in ContextQueries, n \in MaxItemsValues, fails \in LookupFaults :
           Retrieve(q, n, fails)
    \/ \E q \in ContextQueries, fails \in LookupFaults :
           GenerateSmartResponseContext(q, fails)
    \/ AnalyzeConversationPatterns(30)
    \/ GetMemoryInsights
    \/ \E write_fails \in BOOLEAN : ExportMemorySnapshot(<<"snapshot.json">>, write_fails)
    \/ CleanupAndOptimize

SpecMemory == InitMemory /\ [][NextMemory]_vars

\* ---------------------------------------------------------------- settings runs
\* An orchestrator on the stored database; update_settings calls and restarts
\* (a new orchestrator on the same data_dir) are logged in calls.
PartialSettings ==
    {[vector_similarity_threshold |-> 3],
     [vector_similarity_threshold |-> 9],
     [personality_learning_enabled |-> FALSE],
     [vector_similarity_threshold |-> 8, max_context_conversations |-> 3],
     [knowledge_similarity_threshold |-> 9]}

SettingsQueries == {<<"Xin", "chao">>, <<"AI">>, <<"AI", "la">>}

InitSettings ==
    /\ vector_memory = StoredVectorMemory
    /\ knowledge_graph = NewKnowledgeGraph
    /\ personality_graph = NewKnowledgeGraph
    /\ settings_file = None
    /\ proactive = None
    /\ settings = _load_settings(settings_file)
    /\ now = FirstDay
    /\ calls = <<>>
    /\ ret = [op |-> "init"]

UpdateSettings(new_settings, write_fails) ==
    /\ Len(calls) < MaxSettingsCalls
    /\ \E r \in {update_settings(settings, settings_file, new_settings, write_fails)} :
           /\ settings' = r.settings
           /\ settings_file' = r.settings_file
    /\ calls' = Append(calls, [op |-> "update_settings", new_settings |-> new_settings,
                               write_fails |-> write_fails])
    /\ ret' = [op |-> "update_settings", raised |-> FALSE]
    /\ UNCHANGED <<knowledge_graph, personality_graph, vector_memory, proactive, now>>

\* EnhancedMemorySystem(data_dir) anew: the settings are loaded from the file
Restart ==
    /\ Len(calls) < MaxSettingsCalls
    /\ settings' = _load_settings(settings_file)
    /\ calls' = Append(calls, [op |-> "restart"])
    /\ ret' = [op |-> "restart", raised |-> FALSE]
    /\ UNCHANGED <<knowledge_graph, personality_graph, vector_memory, settings_file, proactive,
                   now>>

NextSettings ==
    \/ \E new_settings \in PartialSettings : UpdateSettings(new_settings, FALSE)
    \/ UpdateSettings([vector_similarity_threshold |-> 9], TRUE)
    \/ Restart
    \/ \E q \in SettingsQueries : GenerateSmartResponseContext(q, NoLookupFaults)

SpecSettings == InitSettings /\ [][NextSettings]_vars

\* ---------------------------------------------------------------- memory core runs
\* An orchestrator on the stored database and on the graph of an earlier session, on
\* the day after the stored records were written; calls logs the writing calls.
CoreTurns ==
    {[user_input |-> <<"Xin", "chao", "AI">>,
      ai_response |-> <<"AI", "la", "tri", "tue", "nhan", "tao", ".">>]}
CoreQueries == {<<"a">>, <<"AI">>}
CoreIds == {<<"a">>, <<"b">>}

InitCore ==
    /\ vector_memory = StoredVectorMemory
    /\ knowledge_graph = EarlierSession(1)
    /\ personality_graph = KnowledgeGraph_init(None, None)
    /\ settings_file = None
    /\ proactive = None
    /\ settings = _load_settings(settings_file)
    /\ now = FirstDay + 1
    /\ calls = <<>>
    /\ ret = [op |-> "init"]

\* the frame of a call that writes: it is logged, the settings stay
Logged(op) ==
    /\ Len(calls) < MaxCoreCalls
    /\ calls' = Append(calls, op)
    /\ UNCHANGED <<settings, settings_file, proactive, now>>

CoreStore(turn) ==
    /\ \E r \in {store_conversation(Mem, turn.user_input, turn.ai_response, None, now,
                                     NoFaults)} :
           /\ vector_memory' = r.mem.vector_memory
           /\ knowledge_graph' = r.mem.knowledge_graph
           /\ personality_graph' = r.mem.personality_graph
    /\ ret' = [op |-> "store_conversation", before |-> Mem]
    /\ Logged("store_conversation")

CoreRetrieve(query, max_items) ==
    /\ \E after \in {get_enhanced_context_self(Mem, query, max_items, now)} :
           /\ vector_memory' = after.vector_memory
           /\ knowledge_graph' = after.knowledge_graph
           /\ personality_graph' = after.personality_graph
           /\ settings' = after.settings
    /\ \E r \in {get_enhanced_context(Mem, query, max_items, now, NoLookupFaults)} :
           ret' = [op |-> "get_enhanced_context", query |-> query, before |-> Mem,
                   found |-> Len(r.value.related_entities)
                             + Len(r.value.similar_conversations)]
    /\ UNCHANGED <<settings_file, proactive, now, calls>>

CoreGenerate(user_input) ==
    /\ \E after \in {get_enhanced_context_self(Mem, user_input, DefaultMaxItems, now)} :
           /\ vector_memory' = after.vector_memory
           /\ knowledge_graph' = after.knowledge_graph
           /\ personality_graph' = after.personality_graph
           /\ settings' = after.settings
    /\ \E r \in {generate_smart_response_context(Mem, user_input, now, NoLookupFaults)} :
           ret' = [op |-> "generate_smart_response_context", query |-> user_input,
                   before |-> Mem, found |-> Len(r.value)]
    /\ UNCHANGED <<settings_file, proactive, now, calls>>

CoreAddEntity(entity_id, entity_type) ==
    /\ knowledge_graph' = add_entity(knowledge_graph, entity_id, entity_type, EmptyDict, now)
    /\ ret' = [op |-> "add_entity", before |-> Mem]
    /\ UNCHANGED <<personality_graph, vector_memory>>
    /\ Logged("add_entity")

CoreAddRelationship(source, target) ==
    /\ knowledge_graph' =
           add_relationship(knowledge_graph, source, target, <<"knows">>, EmptyDict, now)
    /\ ret' = [op |-> "add_relationship", before |-> Mem]
    /\ UNCHANGED <<personality_graph, vector_memory>>
    /\ Logged("add_relationship")

CoreUpdateEntity(entity_id, conversation) ==
    /\ knowledge_graph' =
           update_entity_from_conversation(knowledge_graph, entity_id, conversation, now)
    /\ ret' = [op |-> "update_entity_from_conversation", before |-> Mem]
    /\ UNCHANGED <<personality_graph, vector_memory>>
    /\ Logged("update_entity_from_conversation")

CoreAddTrait(trait_name, value) ==
    /\ personality_graph' =
           add_personality_trait(personality_graph, trait_name, value, 8, <<>>, now)
    /\ ret' = [op |-> "add_personality_trait", before |-> Mem]
    /\ UNCHANGED <<knowledge_graph, vector_memory>>
    /\ Logged("add_personality_trait")

CoreCleanup(days) ==
    /\ vector_memory' = cleanup_old_data(vector_memory, days, now)
    /\ ret' = [op |-> "cleanup_old_data", before |-> Mem]
    /\ UNCHANGED <<knowledge_graph, personality_graph>>
    /\ Logged("cleanup_old_data")

NextCore ==
    \/ \E turn \in CoreTurns : CoreStore(turn)
    \/ \E q \in CoreQueries : CoreRetrieve(q, DefaultMaxItems)
    \/ \E q \in CoreQueries : CoreGenerate(q)
    \/ \E id \in CoreIds : CoreAddEntity(id, <<"place">>)
    \/ \E t \in CoreIds : CoreAddRelationship(<<"a">>, t)
    \/ \E id \in CoreIds : CoreUpdateEntity(id, <<"Xin", "chao">>)
    \/ CoreAddTrait(<<"interests">>, <<"A">>)
    \/ \E days \in CleanupAges : CoreCleanup(days)

SpecCore == InitCore /\ [][NextCore]_vars

\* ---------------------------------------------------------------- ProactiveAssistant runs
\* A ProactiveAssistant: monitoring_active, the threads that run _proactive_loop
\* ("running" or "ended", in the order they were started; monitoring_thread is the
\* last one), and its CalendarManager: the reminders, the threads that run
\* monitor_loop (where each is inside check_reminders: pc, the index i of the for
\* loop, the locals now and triggered_reminders), and how often each reminder was handed
\* to the reminder callbacks.  The threads share the objects without a lock: a step
\* of a thread is what it does between two points where another thread can run.
StoredReminders ==
    <<[status |-> "pending", trigger_time |-> 0],
      [status |-> "pending", trigger_time |-> 1]>>

NewProactiveAssistant ==
    [monitoring_active |-> FALSE,
     loops |-> <<>>,
     calendar |-> [reminders |-> StoredReminders,
                   monitors |-> <<>>,
                   handed |-> [i \in 1..Len(StoredReminders) |-> 0]]]

\* a thread of start_reminder_monitor that sleeps between two check_reminders calls
Sleeping == [pc |-> "sleep", i |-> 0, now |-> 0, triggered_reminders |-> <<>>]

\* CalendarManager.start_reminder_monitor: one more thread, which never ends
start_reminder_monitor(calendar) ==
    [calendar EXCEPT !.monitors = Append(@, Sleeping)]

\* ProactiveAssistant.start_proactive_monitoring
start_proactive_monitoring(pa) ==
    IF pa.monitoring_active THEN pa
    ELSE [pa EXCEPT !.monitoring_active = TRUE,
                    !.calendar = start_reminder_monitor(@),
                    !.loops = Append(@, "running")]

\* ProactiveAssistant.stop_proactive_monitoring: the flag is cleared; join(timeout=5)
\* returns whether or not the thread, asleep for up to 300 s, has ended
stop_proactive_monitoring(pa) == [pa EXCEPT !.monitoring_active = FALSE]

InitMonitor ==
    /\ proactive = NewProactiveAssistant
    /\ knowledge_graph = None
    /\ personality_graph = None
    /\ vector_memory = None
    /\ settings = EmptyDict
    /\ settings_file = None
    /\ now = 0
    /\ calls = <<>>
    /\ ret = [op |-> "init"]

MonitorFrame ==
    UNCHANGED <<knowledge_graph, personality_graph, vector_memory, settings,
                settings_file, ret>>

StartProactiveMonitoring ==
    /\ Len(calls) < MaxMonitorCalls
    /\ proactive' = start_proactive_monitoring(proactive)
    /\ calls' = Append(calls, "start_proactive_monitoring")
    /\ UNCHANGED now
    /\ MonitorFrame

StopProactiveMonitoring ==
    /\ Len(calls) < MaxMonitorCalls
    /\ proactive' = stop_proactive_monitoring(proactive)
    /\ calls' = Append(calls, "stop_proactive_monitoring")
    /\ UNCHANGED now
    /\ MonitorFrame

\* _proactive_loop wakes up and tests `while self.monitoring_active`: the thread ends
\* when the flag is False at that moment
ProactiveLoopEnds(k) ==
    /\ proactive.loops[k] = "running"
    /\ ~proactive.monitoring_active
    /\ proactive' = [proactive EXCEPT !.loops[k] = "ended"]
    /\ UNCHANGED <<now, calls>>
    /\ MonitorFrame

\* monitor_loop of thread k calls check_reminders: now is read, the for loop begins
CheckRemindersBegins(k) ==
    /\ proactive.calendar.monitors[k].pc = "sleep"
    /\ proactive' = [proactive EXCEPT !.calendar.monitors[k] =
                        [pc |-> "test", i |-> 1, now |-> now, triggered_reminders |-> <<>>]]
    /\ UNCHANGED <<now, calls>>
    /\ MonitorFrame

\* the tests of one reminder (status, then now >= trigger_time), and at the end of the
\* list the save and the callbacks when something was triggered
CheckRemindersTests(k) ==
    /\ proactive.calendar.monitors[k].pc = "test"
    /\ LET m == proactive.calendar.monitors[k]
           reminders == proactive.calendar.reminders
       IN  proactive' =
               IF m.i > Len(reminders)
               THEN [proactive EXCEPT
                        !.calendar.monitors[k] = Sleeping,
                        !.calendar.handed =
                            [r \in DOMAIN @ |->
                                IF \E j \in 1..Len(m.triggered_reminders) :
                                       m.triggered_reminders[j] = r
                                THEN @[r] + 1 ELSE @[r]]]
               ELSE IF reminders[m.i].status = "pending"
                       /\ m.now >= reminders[m.i].trigger_time
               THEN [proactive EXCEPT !.calendar.monitors[k].pc = "mark"]
               ELSE [proactive EXCEPT !.calendar.monitors[k].i = @ + 1]
    /\ UNCHANGED <<now, calls>>
    /\ MonitorFrame

\* the reminder that passed the tests is appended to triggered_reminders and marked
CheckRemindersMarks(k) ==
    /\ proactive.calendar.monitors[k].pc = "mark"
    /\ LET m == proactive.calendar.monitors[k]
       IN  proactive' = [proactive EXCEPT
               !.calendar.reminders[m.i].status = "triggered",
               !.calendar.monitors[k] =
                   [pc |-> "test", i |-> m.i + 1, now |-> m.now,
                    triggered_reminders |-> Append(m.triggered_reminders, m.i)]]
    /\ UNCHANGED <<now, calls>>
    /\ MonitorFrame

\* the clock reaches the trigger time of the last reminder
ClockTick ==
    /\ now < 1
    /\ now' = now + 1
    /\ UNCHANGED <<proactive, calls>>
    /\ MonitorFrame

NextMonitor ==
    \/ StartProactiveMonitoring
    \/ StopProactiveMonitoring
    \/ \E k \in 1..Len(proactive.loops) : ProactiveLoopEnds(k)
    \/ \E k \in 1..Len(proactive.calendar.monitors) : CheckRemindersBegins(k)
    \/ \E k \in 1..Len(proactive.calendar.monitors) : CheckRemindersTests(k)
    \/ \E k \in 1..Len(proactive.calendar.monitors) : CheckRemindersMarks(k)
    \/ ClockTick

SpecMonitor == InitMonitor /\ [][NextMonitor]_vars

\* ================================================================ EnhancedMemorySystem claims
\* the conversation records of the vector store with this id, input and response
StoredConversations(vm, conversation_id, user_input, ai_response) ==
    {i \in 1..Len(vm.conversations) :
        /\ vm.conversations[i].id = conversation_id
        /\ vm.conversations[i].metadata["user_input"] = Str(user_input)
        /\ vm.conversations[i].metadata["ai_response"] = Str(ai_response)}

\* C1: when the knowledge graph is None and the vector store is there and takes the
\* insert, store_conversation returns processed = True and the conversation, with
\* its user_input and ai_response, is in the conversations collection afterwards.
C1_StoredWithoutEntityGraph ==
    (ret.op = "store_conversation" /\ IsNone(knowledge_graph)
     /\ ~IsNone(vector_memory) /\ ~ret.fails.add)
    => /\ ~ret.raised
       /\ ret.value.processed = TRUE
       /\ StoredConversations(vector_memory, ret.value.conversation_id,
                              ret.user_input, ret.ai_response) # {}

C1_Witness ==
    /\ ret.op = "store_conversation"
    /\ IsNone(knowledge_graph)
    /\ ~IsNone(vector_memory)
    /\ ~ret.fails.add
    /\ ret.value.processed = TRUE
    /\ Len(vector_memory.conversations) = 1
    /\ vector_memory.conversations[1].metadata["user_input"] = Str(ret.user_input)

\* what each step of the last store_conversation call leaves behind when it ran to
\* its end at time ret.at
Step1Done ==
    StoredConversations(vector_memory, ret.value.conversation_id,
                        ret.user_input, ret.ai_response) # {}

Step2Done ==
    LET entities == _simple_entity_extraction(ret.user_input \o ret.ai_response)
    IN  \A i \in 1..Len(entities) :
            /\ has_node(knowledge_graph.graph, entities[i].id)
            /\ DictGet(NodeAttrs(knowledge_graph.graph, entities[i].id),
                       "last_mentioned", None) = Str(IsoFormat(ret.at))

Step3Done ==
    LET observations == TraitObservationsOf(ret.user_input)
    IN  \A i \in 1..Len(observations) :
            LET trait_id == TraitId(observations[i].trait_name)
            IN  /\ has_node(personality_graph.graph, trait_id)
                /\ NodeAttrs(personality_graph.graph, trait_id)["updated_at"]
                       = Str(IsoFormat(ret.at))
                /\ NodeAttrs(personality_graph.graph, trait_id)["value"]
                       = Str(observations[i].value)

Step4Done ==
    LET sentences == KnowledgeSentences(ret.ai_response)
    IN  \A i \in 1..Len(sentences) :
            \E k \in 1..Len(vector_memory.knowledge) :
                /\ vector_memory.knowledge[k].document = sentences[i]
                /\ vector_memory.knowledge[k].metadata["timestamp"]
                       = Str(IsoFormat(ret.at))

\* C2: whichever of steps 2, 3 and 4 of store_conversation raise, the call returns
\* normally with processed = True, the conversation inserted by step 1 stays in the
\* collection, and every step that is switched on, has its subsystem and does not
\* itself raise has run to its end.
C2_StepFailuresAreContained ==
    ret.op = "store_conversation"
    => /\ ~ret.raised
       /\ ret.value.processed = TRUE
       /\ (~IsNone(vector_memory) /\ ~ret.fails.add) => Step1Done
       /\ (settings["auto_extract_entities"] /\ ~IsNone(knowledge_graph)
           /\ ret.fails.entities = NoFail) => Step2Done
       /\ (settings["personality_learning_enabled"] /\ ~IsNone(personality_graph)
           /\ ret.fails.personality = NoFail) => Step3Done
       /\ (settings["knowledge_extraction_enabled"] /\ ~IsNone(knowledge_graph)
           /\ ~IsNone(vector_memory) /\ ret.fails.knowledge = NoFail) => Step4Done

C2_Witness ==
    /\ ret.op = "store_conversation"
    /\ ~IsNone(vector_memory) /\ ~IsNone(knowledge_graph) /\ ~IsNone(personality_graph)
    /\ settings = default_settings
    /\ ret.fails.entities = 0
    /\ ret.fails.personality = NoFail /\ ret.fails.knowledge = NoFail
    /\ _simple_entity_extraction(ret.user_input \o ret.ai_response) # <<>>
    /\ knowledge_graph.graph.nodes = <<>>
    /\ ~ret.raised
    /\ Step1Done
    /\ DOMAIN get_personality_summary(personality_graph) # {}
    /\ Len(vector_memory.knowledge) > 0

\* C3: get_enhanced_context does not raise; the fields of a subsystem that is None
\* or whose lookup raises are empty (a list, or the empty dict for the personality),
\* and every other field holds what its subsystem returns for the query.
C3_RetrieveDegradesPerSubsystem ==
    ret.op = "get_enhanced_context"
    => /\ ~ret.raised
       /\ ret.value.similar_conversations =
              IF IsNone(vector_memory) \/ ret.fails.conversations THEN <<>>
              ELSE search_conversations(vector_memory, ret.query, ret.max_items, FALSE)
       /\ ret.value.relevant_knowledge =
              IF IsNone(vector_memory) \/ ret.fails.knowledge THEN <<>>
              ELSE search_knowledge(vector_memory, ret.query, ret.max_items, FALSE)
       /\ ret.value.related_entities =
              IF IsNone(knowledge_graph) \/ ret.fails.entities THEN <<>>
              ELSE Take(search_entities(knowledge_graph, ret.query, None),
                        ret.max_items)
       /\ ret.value.personality_insights =
              IF IsNone(personality_graph) \/ ret.fails.personality THEN EmptyDict
              ELSE get_personality_summary(personality_graph)

C3_Witness ==
    /\ ret.op = "get_enhanced_context"
    /\ IsNone(knowledge_graph)
    /\ ret.fails.knowledge /\ ~ret.fails.conversations /\ ~ret.fails.personality
    /\ ~ret.raised
    /\ ret.value.related_entities = <<>>
    /\ ret.value.relevant_knowledge = <<>>
    /\ ret.value.similar_conversations # <<>>
    /\ DOMAIN ret.value.personality_insights # {}

\* C4: with a subsystem that is None, no method of the orchestrator raises.
C4_NullSubsystemNeverRaises ==
    (ret.op # "init"
     /\ (IsNone(vector_memory) \/ IsNone(knowledge_graph) \/ IsNone(personality_graph)))
    => ~ret.raised

\* the lines of context_parts under the header line, up to the next header
ContextHeaders ==
    {<<"Previous relevant conversations:">>, <<"\nRelevant knowledge:">>,
     <<"\nUser personality insights:">>, <<"\nRelated entities:">>}

SectionLines(context_parts, header) ==
    {i \in 1..Len(context_parts) :
        /\ context_parts[i] \notin ContextHeaders
        /\ \E h \in 1..(i - 1) :
               /\ context_parts[h] = header
               /\ \A k \in (h + 1)..i : context_parts[k] \notin ContextHeaders}

\* C17: every conversation snippet of generate_smart_response_context is that of a
\* retrieved conversation whose similarity is above the current
\* vector_similarity_threshold, whatever update_settings made it, and every
\* knowledge snippet that of a retrieved item whose similarity is above 0.6.
C17_SnippetsAboveThreshold ==
    ret.op = "generate_smart_response_context"
    => LET convs == search_conversations(vector_memory, ret.query, 5, FALSE)
           know == search_knowledge(vector_memory, ret.query, 5, FALSE)
       IN  /\ \A i \in SectionLines(ret.value, <<"Previous relevant conversations:">>) :
                  \E k \in 1..Len(convs) :
                      /\ convs[k].similarity > settings["vector_similarity_threshold"]
                      /\ \/ ret.value[i] = <<"- User asked:">>
                                               \o Truncate(convs[k].user_input.str, 100)
                         \/ ret.value[i] = <<"  AI responded:">>
                                               \o Truncate(convs[k].ai_response.str, 100)
           /\ \A i \in SectionLines(ret.value, <<"\nRelevant knowledge:">>) :
                  \E k \in 1..Len(know) :
                      /\ know[k].similarity > 6
                      /\ ret.value[i] = <<"-">> \o Truncate(know[k].content, 150)

C17_Witness ==
    /\ ret.op = "generate_smart_response_context"
    /\ settings["vector_similarity_threshold"] = 3
    /\ "knowledge_similarity_threshold" \in DOMAIN settings
    /\ ret.query = <<"AI">>
    /\ Cardinality(SectionLines(ret.value, <<"Previous relevant conversations:">>)) = 2
    /\ <<"\nRelevant knowledge:">> \in {ret.value[i] : i \in 1..Len(ret.value)}
    /\ SectionLines(ret.value, <<"\nRelevant knowledge:">>) = {}

\* the settings after the update_settings calls of calls[1..n], from the defaults
RECURSIVE SettingsAfter(_)
SettingsAfter(n) ==
    IF n = 0 THEN default_settings
    ELSE IF calls[n].op = "update_settings"
    THEN DictUpdate(SettingsAfter(n - 1), calls[n].new_settings)
    ELSE SettingsAfter(n - 1)

\* C18: while no save has failed, the settings are the defaults overridden by the
\* partials of the update_settings calls in call order, the six options are all
\* there, and an orchestrator constructed now loads exactly these settings.
C18_SettingsRoundTrip ==
    (\A i \in 1..Len(calls) : calls[i].op = "update_settings" => ~calls[i].write_fails)
    => /\ settings = SettingsAfter(Len(calls))
       /\ {"vector_similarity_threshold", "max_context_conversations",
           "auto_extract_entities", "personality_learning_enabled",
           "knowledge_extraction_enabled", "semantic_clustering_enabled"}
              \subseteq DOMAIN settings
       /\ _load_settings(settings_file) = settings

C18_Witness ==
    /\ Len(calls) = 2
    /\ calls[1].op = "update_settings" /\ calls[2].op = "update_settings"
    /\ ~calls[1].write_fails /\ ~calls[2].write_fails
    /\ calls[1].new_settings = [vector_similarity_threshold |-> 9]
    /\ calls[2].new_settings = [personality_learning_enabled |-> FALSE]
    /\ settings["vector_similarity_threshold"] = 9
    /\ ~settings["personality_learning_enabled"]
    /\ ~IsNone(settings_file)

\* C20: with knowledge_extraction_enabled on and the vector store there, a
\* store_conversation whose knowledge step does not raise leaves every qualifying
\* sentence of ai_response in the knowledge collection, with or without the
\* knowledge graph.
C20_KnowledgeStoredWithoutEntityGraph ==
    (/\ ret.op = "store_conversation"
     /\ settings["knowledge_extraction_enabled"]
     /\ ~IsNone(vector_memory)
     /\ ret.fails.knowledge = NoFail)
    => Step4Done

\* ================================================================ VectorStore claims
\* C12: search_conversations(query, k) returns at most k results, in non-increasing
\* order of similarity, each similarity within [0, 1] (0..10 tenths).
C12_SearchConversationsBounded ==
    ret.op = "search_conversations"
    => /\ Len(ret.value) <= ret.n_results
       /\ \A i \in 1..(Len(ret.value) - 1) :
              ret.value[i].similarity >= ret.value[i + 1].similarity
       /\ \A i \in 1..Len(ret.value) :
              ret.value[i].similarity >= 0 /\ ret.value[i].similarity <= 10

\* C13: search_conversations(u) right after add_conversation(u, a, ctx) returns a
\* result with that user_input and ai_response whose similarity is above
\* vector_similarity_threshold.
C13_RoundTripAboveThreshold ==
    (/\ ret.op = "search_conversations"
     /\ ret.n_results = 5
     /\ calls # <<>>
     /\ calls[Len(calls)].op = "add_conversation"
     /\ ~calls[Len(calls)].failed
     /\ calls[Len(calls)].user_input = ret.query)
    => \E i \in 1..Len(ret.value) :
           /\ ret.value[i].user_input = Str(calls[Len(calls)].user_input)
           /\ ret.value[i].ai_response = Str(calls[Len(calls)].ai_response)
           /\ ret.value[i].similarity > settings["vector_similarity_threshold"]

\* the day a conversation record was added on
DayOf(record) == FromIsoFormat(record.metadata["timestamp"].str).num

\* C14: cleanup_old_data(days) deletes exactly the conversations whose timestamp is
\* strictly before the cutoff, leaves the knowledge and personality collections as
\* they were, and a second call with the same days at the same clock reading
\* changes nothing.
C14_CleanupExactAndIdempotent ==
    ret.op = "cleanup_old_data"
    => /\ vector_memory.conversations =
              SelectSeq(ret.before.conversations,
                        LAMBDA r : ~(DayOf(r) < ret.at - ret.days))
       /\ vector_memory.knowledge = ret.before.knowledge
       /\ vector_memory.personality = ret.before.personality
       /\ cleanup_old_data(vector_memory, ret.days, ret.at) = vector_memory

C14_Witness ==
    /\ ret.op = "cleanup_old_data"
    /\ Len(ret.before.conversations) = 2
    /\ Len(vector_memory.conversations) = 1
    /\ DayOf(vector_memory.conversations[1]) = ret.at - ret.days
    /\ vector_memory.knowledge # <<>>
    /\ vector_memory.personality # <<>>

\* C16: an add of the vector store whose collection raises returns an id and does
\* not raise.
C16_AddAbsorbsFailure ==
    (ret.op \in {"add_conversation", "add_knowledge", "update_personality_trait"}
     /\ ret.failed)
    => ~ret.raised /\ IsStr(ret.value)

\* the update_personality_trait calls so far, as indices of calls
Upserts == {i \in 1..Len(calls) : calls[i].op = "update_personality_trait"}

LastUpsert(trait) ==
    CHOOSE i \in Upserts : /\ calls[i].trait = trait
                           /\ \A j \in Upserts : calls[j].trait = trait => j <= i

\* C19: while no add of the collection has failed, the personality collection
\* holds one record per trait upserted so far and no other, with id trait_<name>
\* and the value and confidence of the latest upsert of that trait.
C19_OneRecordPerTrait ==
    (\A i \in Upserts : ~calls[i].failed)
    => LET records == vector_memory.personality
           Upserted == {calls[i].trait : i \in Upserts}
       IN  /\ Len(records) = Cardinality(Upserted)
           /\ \A i, j \in 1..Len(records) :
                  records[i].metadata["trait"] = records[j].metadata["trait"] => i = j
           /\ \A i \in 1..Len(records) :
                  \E trait \in Upserted :
                      /\ records[i].id = <<"trait_">> \o trait
                      /\ records[i].metadata["trait"] = Str(trait)
                      /\ records[i].document = calls[LastUpsert(trait)].value
                      /\ records[i].metadata["confidence"]
                             = Num(calls[LastUpsert(trait)].confidence)
                      /\ get_personality_profile(vector_memory)[Str(trait)].value
                             = calls[LastUpsert(trait)].value

C19_Witness ==
    /\ Cardinality(Upserts) = 3
    /\ \A i \in Upserts : ~calls[i].failed
    /\ calls[1].trait = calls[3].trait
    /\ calls[1].value # calls[3].value
    /\ calls[2].trait # calls[1].trait
    /\ Len(vector_memory.personality) = 2

\* ================================================================ EntityGraph claims
AddEntityCalls(entity_id) ==
    SelectSeq(calls, LAMBDA c : c.op = "add_entity" /\ c.entity_id = entity_id)

\* the value the calls cs give key k: that of the last call passing k
LastValue(cs, k) ==
    LET i == CHOOSE i \in 1..Len(cs) : k \in DOMAIN cs[i].properties
                 /\ \A j \in (i + 1)..Len(cs) : k \notin DOMAIN cs[j].properties
    IN  cs[i].properties[k]

PassedKeys(cs) == UNION {DOMAIN cs[i].properties : i \in 1..Len(cs)}

NodesWithId(kg, entity_id) ==
    {i \in 1..Len(kg.graph.nodes) : kg.graph.nodes[i].id = entity_id}

\* C5: after any sequence of addEntity calls, getEntity(id) has the type of the most
\* recent addEntity call for id, its properties are the override-merge of the
\* properties of all addEntity calls for id, and the graph holds one node for id.
C5_MergeAndLastType ==
    \A id \in EntityIds :
        LET cs == AddEntityCalls(id)
            e == get_entity(knowledge_graph, id)
        IN  cs # <<>> =>
              /\ Cardinality(NodesWithId(knowledge_graph, id)) = 1
              /\ e["type"] = Str(cs[Len(cs)].entity_type)
              /\ \A k \in PassedKeys(cs) : k \in DOMAIN e /\ e[k] = LastValue(cs, k)

\* C9: both endpoints of every relation are entities that carry a type; an
\* addRelationship call creates a missing endpoint with type "unknown" and leaves
\* the attributes of an endpoint that already existed as they were.
C9_EndpointsExist ==
    /\ \A i \in 1..Len(knowledge_graph.graph.edges) :
          \A n \in {knowledge_graph.graph.edges[i].source,
                    knowledge_graph.graph.edges[i].target} :
              /\ has_node(knowledge_graph.graph, n)
              /\ "type" \in DOMAIN NodeAttrs(knowledge_graph.graph, n)
    /\ ret.op = "add_relationship" =>
          \A n \in {ret.source, ret.target} :
              IF has_node(ret.before, n)
              THEN NodeAttrs(knowledge_graph.graph, n) = NodeAttrs(ret.before, n)
              ELSE /\ NodeAttrs(knowledge_graph.graph, n)["type"] = Str(<<"unknown">>)
                   /\ DOMAIN NodeAttrs(knowledge_graph.graph, n)
                        = {"type", "created_at", "updated_at"}

\* a relation was added between an entity that existed, with properties, and one
\* that did not
C9_Witness ==
    /\ ret.op = "add_relationship"
    /\ ret.source # ret.target
    /\ \E n \in {ret.source, ret.target} :
          /\ has_node(ret.before, n)
          /\ "name" \in DOMAIN NodeAttrs(ret.before, n)
    /\ \E n \in {ret.source, ret.target} : ~has_node(ret.before, n)

\* whether query matches node: its id or one of its str attribute values holds the
\* query, case ignored
Matches(node, query) ==
    \/ Contains(Lower(node.id), Lower(query))
    \/ \E k \in DOMAIN node.attrs :
          IsStr(node.attrs[k]) /\ Contains(Lower(node.attrs[k].str), Lower(query))

ClaimedScore(node, query) ==
    (IF Contains(Lower(node.id), Lower(query)) THEN 2 ELSE 0)
    + Cardinality({k \in DOMAIN node.attrs :
                     /\ IsStr(node.attrs[k])
                     /\ Contains(Lower(node.attrs[k].str), Lower(query))})

\* the nodes search_entities(ret.query, ret.entity_type) is to choose from
Candidates ==
    {i \in 1..Len(knowledge_graph.graph.nodes) :
        /\ ClaimedScore(knowledge_graph.graph.nodes[i], ret.query) > 0
        /\ (IsNone(ret.entity_type)
            \/ DictGet(knowledge_graph.graph.nodes[i].attrs, "type", None)
                   = ret.entity_type)}

HasEdge(u, v) ==
    \E i \in 1..Len(knowledge_graph.graph.edges) :
        /\ knowledge_graph.graph.edges[i].source = u
        /\ knowledge_graph.graph.edges[i].target = v

IsSimplePath(path) ==
    /\ Len(path) >= 1
    /\ path[1] = ret.source
    /\ path[Len(path)] = ret.target
    /\ \A i, j \in 1..Len(path) : path[i] = path[j] => i = j
    /\ \A i \in 1..(Len(path) - 1) : HasEdge(path[i], path[i + 1])
    /\ Len(path) - 1 <= ret.max_length

SimplePaths ==
    LET ids == {knowledge_graph.graph.nodes[i].id :
                   i \in 1..Len(knowledge_graph.graph.nodes)}
    IN  {path \in UNION {[1..n -> ids] : n \in 1..Cardinality(ids)} :
            IsSimplePath(path)}

\* C15: every path find_path returns is a simple path from source to target of at
\* most max_length edges, at most 10 are returned, and while the graph has at most
\* 10 such paths between two different entities each of them is returned.
C15_FindPathReturnsSimplePaths ==
    ret.op = "find_path"
    => /\ \A k \in 1..Len(ret.value) : IsSimplePath(ret.value[k])
       /\ Len(ret.value) <= 10
       /\ (ret.source # ret.target /\ Cardinality(SimplePaths) <= 10)
          => \A path \in SimplePaths :
                 \E k \in 1..Len(ret.value) : ret.value[k] = path

\* ================================================================ PersonalityModel claims
TraitCalls(trait_name) ==
    SelectSeq(calls, LAMBDA c : c.op = "add_personality_trait" /\ c.trait_name = trait_name)

AllTraitCalls == SelectSeq(calls, LAMBDA c : c.op = "add_personality_trait")

CalledTraitNames == {AllTraitCalls[i].trait_name : i \in 1..Len(AllTraitCalls)}

\* what getSummary()[T] holds when it shows the last call of cs
SummaryOfLast(cs) ==
    [value |-> Str(cs[Len(cs)].value),
     confidence |-> Num(cs[Len(cs)].confidence),
     context |-> Str(cs[Len(cs)].context)]

\* C6 as stated: for every trait name T passed to addTrait, getSummary()[T] holds the
\* value, confidence and context of the most recent addTrait(T, ...) call.
C6_SummaryShowsLastCall ==
    \A tn \in CalledTraitNames :
        /\ Str(tn) \in DOMAIN get_personality_summary(personality_graph)
        /\ get_personality_summary(personality_graph)[Str(tn)] = SummaryOfLast(TraitCalls(tn))

\* C6, amended: for every non-empty trait name T passed to addTrait, getSummary()[T]
\* holds the value, confidence and context of the most recent addTrait(T, ...) call,
\* and nothing of the earlier calls; a trait whose name is the empty string is
\* left out of the summary.
C6_SummaryShowsLastCallOfNamedTrait ==
    /\ \A tn \in CalledTraitNames \ {<<>>} :
          /\ Str(tn) \in DOMAIN get_personality_summary(personality_graph)
          /\ get_personality_summary(personality_graph)[Str(tn)]
                = SummaryOfLast(TraitCalls(tn))
    /\ DOMAIN get_personality_summary(personality_graph)
          = {Str(tn) : tn \in CalledTraitNames \ {<<>>}}

\* a trait was added twice with different value, confidence and context
C6_Witness ==
    \E tn \in CalledTraitNames \ {<<>>} :
        LET cs == TraitCalls(tn)
        IN  /\ Len(cs) >= 2
            /\ cs[1].value # cs[Len(cs)].value
            /\ cs[1].confidence # cs[Len(cs)].confidence
            /\ cs[1].context # cs[Len(cs)].context
            /\ get_personality_summary(personality_graph)[Str(tn)].value
                  = Str(cs[Len(cs)].value)

\* the outgoing has_trait relations of user_profile, in the order get_relationships
\* lists them
HasTraitRelations ==
    LET rels == get_relationships(personality_graph, <<"user_profile">>)
    IN  SelectSeq(rels, LAMBDA r : r.direction = "outgoing"
                                   /\ r.type = Str(<<"has_trait">>))

\* C7: after n >= 1 addTrait calls, getRelationships("user_profile") holds exactly n
\* outgoing has_trait relations, one per call: the call made at tick i has one
\* relation to trait_<its traitName> carrying its confidence and its time, so no
\* call replaced or removed the relation of an earlier call.
C7_OneHasTraitEdgePerCall ==
    AllTraitCalls # <<>> =>
        /\ Len(HasTraitRelations) = Len(AllTraitCalls)
        /\ \A i \in 1..Len(AllTraitCalls) :
              Cardinality({k \in 1..Len(HasTraitRelations) :
                  /\ HasTraitRelations[k].source = <<"user_profile">>
                  /\ HasTraitRelations[k].target = TraitId(AllTraitCalls[i].trait_name)
                  /\ HasTraitRelations[k].properties["discovered_at"]
                        = Str(IsoFormat(i - 1))
                  /\ HasTraitRelations[k].properties["confidence"]
                        = Num(AllTraitCalls[i].confidence)}) = 1
        /\ \A tn \in CalledTraitNames :
              Cardinality({k \in 1..Len(HasTraitRelations) :
                  HasTraitRelations[k].target = TraitId(tn)}) = Len(TraitCalls(tn))

\* three addTrait calls, two of them for the same trait
C7_Witness ==
    /\ Len(AllTraitCalls) = 3
    /\ Cardinality(CalledTraitNames) = 2
    /\ Len(HasTraitRelations) = 3

TraitNodes ==
    {i \in 1..Len(personality_graph.graph.nodes) :
        DictGet(personality_graph.graph.nodes[i].attrs, "type", None)
            = Str(<<"personality_trait">>)}

\* C8: in every state reached by addTrait calls, each trait name has at most one
\* node of type personality_trait, with id trait_<traitName>, and the number of
\* personality_trait nodes is the number of distinct trait names passed so far.
C8_OneNodePerTraitName ==
    /\ Cardinality(TraitNodes) = Cardinality(CalledTraitNames)
    /\ \A i \in TraitNodes :
          \E tn \in CalledTraitNames :
              /\ personality_graph.graph.nodes[i].id = TraitId(tn)
              /\ personality_graph.graph.nodes[i].attrs["trait_name"] = Str(tn)
    /\ \A tn \in CalledTraitNames :
          Cardinality({i \in TraitNodes :
              personality_graph.graph.nodes[i].attrs["trait_name"] = Str(tn)}) = 1

\* one trait was added twice and another once: two trait nodes after three calls
C8_Witness ==
    /\ Len(AllTraitCalls) = 3
    /\ Cardinality(CalledTraitNames) = 2
    /\ Cardinality(TraitNodes) = 2

\* ================================================================ EntityGraph persistence claims
\* the instance the last call of the persistence specification worked on
Target == IF ret.op = "add_personality_trait" THEN personality_graph ELSE knowledge_graph

\* a new instance constructed on the data directory of kg holds what kg holds
GraphInSync(kg) ==
    KnowledgeGraph_init(kg.graph_file, kg.metadata_file).graph = kg.graph
MetadataInSync(kg) ==
    KnowledgeGraph_init(kg.graph_file, kg.metadata_file).metadata = kg.metadata

\* the last call was a mutating call that met no disk failure and raised nothing
\* inside (update_entity_from_conversation for an id that is no node mutates nothing)
MutatedOnWorkingDisk ==
    /\ ret.op \in {"add_entity", "add_relationship", "update_entity_from_conversation",
                   "add_personality_trait"}
    /\ ret.disk = DiskOk
    /\ ret.op \in {"add_entity", "add_relationship"} => ret.value
    /\ ret.op = "update_entity_from_conversation"
           => has_node(ret.before.graph, ret.entity_id)

\* C21: after a mutating call (add_entity, add_relationship,
\* update_entity_from_conversation, add_personality_trait) that met no disk failure,
\* a new instance constructed on the same data directory has the same graph, whatever
\* earlier saves did, and the same metadata: always after add_entity and
\* add_personality_trait, and after the calls that do not touch the metadata whenever
\* the metadata file was up to date before the call.
C21_PersistedEqualsMemory ==
    MutatedOnWorkingDisk =>
        /\ GraphInSync(Target)
        /\ (ret.op \in {"add_entity", "add_personality_trait"} \/ MetadataInSync(ret.before))
               => MetadataInSync(Target)

\* an add_relationship on a working disk that added a relation after an earlier save of
\* the graph had failed
C21_Witness ==
    /\ MutatedOnWorkingDisk
    /\ ret.op = "add_relationship"
    /\ Len(knowledge_graph.graph.edges) > Len(ret.before.graph.edges)
    /\ Len(ret.before.graph.nodes) > 0
    /\ ~GraphInSync(ret.before)
    /\ MetadataInSync(ret.before)

\* C22: when the process stops during a save, the graph a later load yields is the
\* graph as it was before the mutating call or the graph after it.
C22_SaveIsAtomic ==
    ret.op = "stopped" => knowledge_graph.graph \in {ret.before.graph, ret.after.graph}

\* C27: when add_entity returns False, the graph and the metadata in memory are what
\* they were before the call.
C27_FailedAddEntityChangesNothing ==
    (ret.op = "add_entity" /\ ~ret.value) =>
        /\ knowledge_graph.graph = ret.before.graph
        /\ knowledge_graph.metadata = ret.before.metadata

\* the attributes of the entity the last add_entity call was about, before and after
AttrsBefore == NodeAttrs(ret.before.graph, ret.entity_id)
AttrsAfter == NodeAttrs(knowledge_graph.graph, ret.entity_id)

\* the last call was an add_entity for an id that was a node already, and returned True
ReAdded ==
    /\ ret.op = "add_entity"
    /\ ret.value
    /\ has_node(ret.before.graph, ret.entity_id)

\* C29: re-adding an existing entity id leaves its created_at as it was and changes
\* only updated_at, type and the passed properties.
C29_ReAddKeepsCreatedAt ==
    ReAdded =>
        /\ AttrsAfter["created_at"] = AttrsBefore["created_at"]
        /\ \A k \in DOMAIN AttrsBefore :
               k \notin ({"updated_at", "type"} \cup DOMAIN ret.properties)
                   => AttrsAfter[k] = AttrsBefore[k]

\* the members of the clusters get_clusters returned
ClusterSets == {ret.value[i].members : i \in 1..Len(ret.value)}

\* C25: the clusters get_clusters returns are pairwise disjoint, each is a maximal
\* connected set of the undirected graph, and every entity is in exactly one of them.
C25_ClustersPartitionTheGraph ==
    ret.op = "get_clusters" =>
        /\ \A i, j \in 1..Len(ret.value) :
               i # j => ret.value[i].members \cap ret.value[j].members = {}
        /\ \A c \in ClusterSets : \A u \in c : Reach(knowledge_graph.graph, {u}) = c
        /\ \A i \in 1..Len(knowledge_graph.graph.nodes) :
               \E c \in ClusterSets : knowledge_graph.graph.nodes[i].id \in c

\* the mention counter and the window of snippets of an attribute dict
MentionCount(attrs) == DictGet(attrs, "mention_count", Num(0)).num
RecentContext(attrs) == DictGet(attrs, "recent_context", List(<<>>)).list

\* what the claim says the window is after one more snippet
WindowAfter(window, snippet) ==
    LET all == window \o <<snippet>>
        n == IF Len(all) < 5 THEN Len(all) ELSE 5
    IN  [i \in 1..n |-> all[Len(all) - n + i]]

\* C24: an update_entity_from_conversation call for an entity of the graph raises its
\* mention_count by one and appends one snippet, the window then holding the newest
\* snippets, at most five, in call order; in every state the window of an entity holds
\* min(mention_count, 5) snippets, whatever add_entity calls came in between; a call
\* for an id that is no node changes nothing.
C24_RollingWindow ==
    /\ \A i \in 1..Len(knowledge_graph.graph.nodes) :
           LET attrs == knowledge_graph.graph.nodes[i].attrs
           IN  Len(RecentContext(attrs)) =
                   (IF MentionCount(attrs) < 5 THEN MentionCount(attrs) ELSE 5)
    /\ ret.op = "update_entity_from_conversation" =>
           IF has_node(ret.before.graph, ret.entity_id)
           THEN /\ MentionCount(AttrsAfter) = MentionCount(AttrsBefore) + 1
                /\ RecentContext(AttrsAfter) =
                       WindowAfter(RecentContext(AttrsBefore),
                                   [conversation |-> ret.conversation,
                                    timestamp |-> IsoFormat(now - 1)])
           ELSE knowledge_graph = ret.before

\* the sixth update of an entity, made after the entity was added again: the oldest
\* snippet has left the window
C24_Witness ==
    /\ ret.op = "update_entity_from_conversation"
    /\ has_node(ret.before.graph, ret.entity_id)
    /\ AttrsBefore["updated_at"] = Str(IsoFormat(1))
    /\ MentionCount(AttrsAfter) = 6
    /\ Len(RecentContext(AttrsAfter)) = 5
    /\ RecentContext(AttrsAfter)[1].conversation = <<"old", "2">>
    /\ RecentContext(AttrsAfter)[5].conversation = ret.conversation

\* ================================================================ smart context claims
\* C28: generate_smart_response_context returns the empty string whenever no retrieved
\* conversation is above the similarity threshold, no retrieved knowledge item is above
\* 0.6, the personality summary is empty and no entity matches.
C28_EmptyWhenNothingQualifies ==
    (/\ ret.op = "generate_smart_response_context"
     /\ \A c \in {search_conversations(vector_memory, ret.query, DefaultMaxItems, FALSE)} :
            \A i \in 1..Len(c) :
                ~(c[i].similarity > settings["vector_similarity_threshold"])
     /\ \A k \in {search_knowledge(vector_memory, ret.query, DefaultMaxItems, FALSE)} :
            \A i \in 1..Len(k) : ~(k[i].similarity > 6)
     /\ DOMAIN get_personality_summary(personality_graph) = {}
     /\ search_entities(knowledge_graph, ret.query, None) = <<>>)
    => ret.value = <<>>

\* ================================================================ memory core claims
\* the entity ids of a graph, its relations (source, target, key and type: one per
\* parallel relation), and the records of a collection
EntitiesOf(kg) == {kg.graph.nodes[i].id : i \in 1..Len(kg.graph.nodes)}
RelationsOf(kg) ==
    {[source |-> kg.graph.edges[i].source, target |-> kg.graph.edges[i].target,
      key |-> kg.graph.edges[i].key, type |-> kg.graph.edges[i].attrs["type"]] :
        i \in 1..Len(kg.graph.edges)}
RecordsOf(collection) == {collection[i] : i \in 1..Len(collection)}

CoreOps == {"store_conversation", "get_enhanced_context",
            "generate_smart_response_context", "add_entity", "add_relationship",
            "update_entity_from_conversation", "add_personality_trait",
            "cleanup_old_data"}

\* C23: across store, retrieve, add_entity, add_relationship,
\* update_entity_from_conversation and add_personality_trait calls no entity and no
\* relation leaves a graph and no conversation or knowledge record leaves the database;
\* cleanup_old_data removes conversation records and nothing else.
C23_OnlyCleanupRemoves ==
    ret.op \in CoreOps =>
        /\ EntitiesOf(ret.before.knowledge_graph) \subseteq EntitiesOf(knowledge_graph)
        /\ RelationsOf(ret.before.knowledge_graph) \subseteq RelationsOf(knowledge_graph)
        /\ EntitiesOf(ret.before.personality_graph) \subseteq EntitiesOf(personality_graph)
        /\ RelationsOf(ret.before.personality_graph)
               \subseteq RelationsOf(personality_graph)
        /\ RecordsOf(ret.before.vector_memory.knowledge)
               \subseteq RecordsOf(vector_memory.knowledge)
        /\ IF ret.op = "cleanup_old_data"
           THEN /\ RecordsOf(vector_memory.conversations)
                       \subseteq RecordsOf(ret.before.vector_memory.conversations)
                /\ knowledge_graph = ret.before.knowledge_graph
                /\ personality_graph = ret.before.personality_graph
           ELSE RecordsOf(ret.before.vector_memory.conversations)
                    \subseteq RecordsOf(vector_memory.conversations)

\* a cleanup that removed the two stored conversations after a store had added a
\* conversation, entities and knowledge
C23_Witness ==
    /\ ret.op = "cleanup_old_data"
    /\ calls = <<"store_conversation", "cleanup_old_data">>
    /\ Len(vector_memory.conversations) = 1
    /\ Len(ret.before.vector_memory.conversations) = 3
    /\ Cardinality(EntitiesOf(knowledge_graph)) > 1
    /\ Len(vector_memory.knowledge) > 1

RunningLoops == {k \in 1..Len(proactive.loops) : proactive.loops[k] = "running"}

\* C30: under any sequence of start_proactive_monitoring and stop_proactive_monitoring
\* calls at most one _proactive_loop thread and at most one reminder monitor thread
\* run at any time, and every reminder is handed to the reminder callbacks at most once.
C30_OneThreadOfEachKind ==
    /\ Cardinality(RunningLoops) <= 1
    /\ Len(proactive.calendar.monitors) <= 1
    /\ \A r \in DOMAIN proactive.calendar.handed : proactive.calendar.handed[r] <= 1
====
